---- MODULE Spec2Model ----
(***************************************************************************)
(* Schema definition, validation and normalization of the packs SDK        *)
(* (schema.ts).  Schema objects live in a heap so that object identity,    *)
(* sharing and in-place assignment (Object.assign) are visible.            *)
(*                                                                         *)
(* Strings that the code inspects character by character (property keys)   *)
(* are sequences of one-character strings; strings it only compares        *)
(* (type, codaType, description) are TLA+ strings.                         *)
(***************************************************************************)
EXTENDS Integers, Sequences, FiniteSets, TLC

VARIABLES heap, root, calls, givenKey, keyCalls,
          fetcher, request, fpc, transport, response, decoding, fetchResult,
          responseTemplate, formulas, invocations

\* the schema objects, the declared schema and the library calls made on it
schemaVars == <<heap, root, calls>>
\* a given property key and the normalizeSchemaKey calls made on it
keyVars == <<givenKey, keyCalls>>

\* an AuthenticatingFetcher (_authDef, _credentials), the request fetch was called
\* with, the position of the fetch call, the requests given to the transport
\* (request-promise-native), the transport's response, what the decoder of the
\* response body did, and what fetch returned or threw
fetchVars == <<fetcher, request, fpc, transport, response, decoding, fetchResult>>

\* a response template ({schema, onError}), the formulas built from definitions that
\* hold it, and the invocations of their execute functions
formulaVars == <<responseTemplate, formulas, invocations>>

vars == <<schemaVars, keyVars, fetchVars, formulaVars>>

\* no schema is declared
SchemaIdle == heap = <<>> /\ root = 0 /\ calls = <<>>
\* no key is being normalized
KeyIdle == givenKey = <<>> /\ keyCalls = <<>>
\* no fetcher is constructed
FetchIdle ==
  /\ fetcher = <<>> /\ request = <<>> /\ fpc = "idle" /\ transport = <<>>
  /\ response = <<>> /\ decoding = <<>> /\ fetchResult = <<>>
\* no formula is defined
FormulaIdle == responseTemplate = <<>> /\ formulas = <<>> /\ invocations = <<>>

(***************************************************************************)
(* Bounds of the model.                                                    *)
(***************************************************************************)
\* number of library calls made on one declared schema
MaxCalls == 2
\* nesting depth of the object schemas declared below the top-level one
MaxDepth == 2
\* length of the keys given to normalizeSchemaKey
MaxKeyLen == 3
\* number of normalizeSchemaKey calls made on one key and its results
MaxKeyCalls == 2
\* number of invocations of the formulas' execute functions
MaxInvocations == 2

(***************************************************************************)
(* JavaScript values of optional fields.  A field is absent (no own        *)
(* property), undefined, null, or holds a value; v is the value and is a   *)
(* default of the field's type otherwise.                                  *)
(***************************************************************************)
Absent(d) == [k |-> "absent", v |-> d]
Undefined(d) == [k |-> "undefined", v |-> d]
Null(d) == [k |-> "null", v |-> d]
Val(x) == [k |-> "value", v |-> x]

\* typeof value === 'undefined' || value === null, reading an absent field gives undefined
IsNullish(f) == f.k # "value"

\* the value read from a field: an absent field reads as undefined
Read(f) == IF f.k = "absent" THEN [k |-> "undefined", v |-> f.v] ELSE f

\* defaults per field type
NoKey == <<>>
NoStr == ""
NoIdentity == [name |-> "", packId |-> Absent(0)]

\* truthiness of a string-valued field: a non-empty string
TruthyKey(f) == f.k = "value" /\ f.v # <<>>
\* truthiness of a boolean-valued field
TruthyBool(f) == f.k = "value" /\ f.v = TRUE

(***************************************************************************)
(* ValueType and the object hint types (schema.ts enum values).            *)
(***************************************************************************)
Boolean == "boolean"
Number == "number"
String == "string"
Array == "array"
Object == "object"
\* the type field of a definition that omits it (makeObjectSchema allows that)
NoType == "<no type>"
Person == "person"
Reference == "reference"

(***************************************************************************)
(* Characters and the key-normalization function.                          *)
(***************************************************************************)
LowerCase == <<"a","b","c","d","e","f","g","h","i","j","k","l","m",
               "n","o","p","q","r","s","t","u","v","w","x","y","z">>
UpperCase == <<"A","B","C","D","E","F","G","H","I","J","K","L","M",
               "N","O","P","Q","R","S","T","U","V","W","X","Y","Z">>
Digits == {"0","1","2","3","4","5","6","7","8","9"}

Range(s) == {s[i] : i \in DOMAIN s}

\* the characters of the class [a-zA-Z0-9]
Alnum == Range(LowerCase) \cup Range(UpperCase) \cup Digits
IsAlnum(c) == c \in Alnum
IsSpace(c) == c = " "

\* String.prototype.toLocaleUpperCase on one character
toLocaleUpperCase(c) ==
  IF \E i \in DOMAIN LowerCase : LowerCase[i] = c
    THEN UpperCase[CHOOSE i \in DOMAIN LowerCase : LowerCase[i] = c]
    ELSE c

RECURSIVE TrimLeft(_)
TrimLeft(s) == IF s # <<>> /\ IsSpace(Head(s)) THEN TrimLeft(Tail(s)) ELSE s

RECURSIVE TrimRight(_)
TrimRight(s) ==
  IF s # <<>> /\ IsSpace(s[Len(s)]) THEN TrimRight(SubSeq(s, 1, Len(s) - 1)) ELSE s

\* String.prototype.trim
trim(s) == TrimRight(TrimLeft(s))

\* titlecase = input => input[0].toLocaleUpperCase() + input.slice(1)
titlecase(m) == <<toLocaleUpperCase(Head(m))>> \o Tail(m)

\* input.match(/[a-zA-Z0-9]+/g).map(titlecase).join(''): s is the rest of the
\* input, run the alphanumeric run being read
RECURSIVE JoinTitlecasedRuns(_, _)
JoinTitlecasedRuns(s, run) ==
  IF s = <<>>
    THEN IF run = <<>> THEN <<>> ELSE titlecase(run)
    ELSE IF IsAlnum(Head(s))
      THEN JoinTitlecasedRuns(Tail(s), Append(run, Head(s)))
      ELSE (IF run = <<>> THEN <<>> ELSE titlecase(run)) \o JoinTitlecasedRuns(Tail(s), <<>>)

\* the pascalcase package (1.0.0) imported by schema.ts
pascalcase(value) ==
  LET input == trim(value) IN
  IF input = <<>> THEN <<>>
  ELSE IF Len(input) = 1 THEN <<toLocaleUpperCase(input[1])>>
  ELSE IF \E i \in DOMAIN input : IsAlnum(input[i]) THEN JoinTitlecasedRuns(input, <<>>)
  ELSE input

\* mutant: .replace(':', '_') replaces the first colon only
ReplaceColons_FirstOnly(s) ==
  [i \in DOMAIN s |-> IF s[i] = ":" /\ \A j \in 1..(i - 1) : s[j] # ":" THEN "_" ELSE s[i]]

\* .replace(/:/g, '_')
ReplaceColons(s) == [i \in DOMAIN s |-> IF s[i] = ":" THEN "_" ELSE s[i]]

\* mutant: the key is pascal-cased and its colons stay
normalizeSchemaKey_KeepsColons(key) == pascalcase(key)

\* pascalcase(key).replace(/:/g, '_')
normalizeSchemaKey(key) == ReplaceColons(pascalcase(key))

(***************************************************************************)
(* Schema objects.  Every schema object of the heap is a record with the   *)
(* fields below; properties is the object's key -> property-schema mapping *)
(* in key order, as a sequence of <<key, address>>; items is <<>> or       *)
(* <<address>>.                                                            *)
(***************************************************************************)
SchemaObject(type) ==
  [type |-> type,
   codaType |-> Absent(NoStr),
   description |-> Absent(NoStr),
   required |-> Absent(FALSE),
   fromKey |-> Absent(NoKey),
   items |-> <<>>,
   properties |-> <<>>,
   id |-> Absent(NoKey),
   primary |-> Absent(NoKey),
   featured |-> Absent(<<>>),
   identity |-> Absent(NoIdentity)]

\* isObject / isArray
isObject(val) == val.type = Object
isArray(val) == val.type = Array

\* Object.keys(properties)
Keys(properties) == [i \in DOMAIN properties |-> properties[i][1]]
HasKey(properties, key) == \E i \in DOMAIN properties : properties[i][1] = key
\* properties[key], for a key the mapping has
Get(properties, key) ==
  properties[CHOOSE i \in DOMAIN properties : properties[i][1] = key][2]
\* properties[key] = value: an existing key keeps its position, a new key is appended
\* (key order of an object whose keys are not integer-like)
Set(properties, key, value) ==
  IF HasKey(properties, key)
    THEN [i \in DOMAIN properties |->
            IF properties[i][1] = key THEN <<key, value>> ELSE properties[i]]
    ELSE Append(properties, <<key, value>>)

(***************************************************************************)
(* Errors.  A message is the template literal of the code with the values  *)
(* substituted into it; at is the schema object whose check raised.        *)
(***************************************************************************)
NoError == [name |-> "", template |-> "", codaType |-> "", field |-> <<>>, at |-> 0]

RequireFieldTemplate ==
  "Objects with codaType \"${codaType}\" require a \"${fieldName}\" property in the schema definition."
MustBeRequiredTemplate ==
  "Field \"${field}\" must be marked as required in schema with codaType \"${codaType}\"."
ReadOfUndefinedTemplate == "Cannot read properties of undefined (reading 'required')"

PlaceholderIdentityPackId == -1

\* helpers/ensure: ensureExists(value, message) throws when value is null or undefined
ensureExists(value, error) == IF IsNullish(value) THEN error ELSE NoError

\* helpers/ensure: assertCondition(condition, message) throws when condition is falsy
assertCondition(condition, error) == IF condition THEN NoError ELSE error

\* the names of the fields checked, as the code spells them
F_id == <<"i", "d">>
F_identity == <<"i", "d", "e", "n", "t", "i", "t", "y">>
F_primary == <<"p", "r", "i", "m", "a", "r", "y">>

\* mutant: only an undefined field counts as missing, null does not
checkRequiredFieldInObjectSchema_UndefinedOnly(field, fieldName, codaType, at) ==
  IF field.k \in {"absent", "undefined"}
    THEN [name |-> "UserVisibleError", template |-> RequireFieldTemplate,
          codaType |-> codaType, field |-> fieldName, at |-> at]
    ELSE NoError

checkRequiredFieldInObjectSchema(field, fieldName, codaType, at) ==
  ensureExists(field,
    [name |-> "UserVisibleError", template |-> RequireFieldTemplate,
     codaType |-> codaType, field |-> fieldName, at |-> at])

\* mutant: only required: false is rejected, an unset flag is accepted
checkSchemaPropertyIsRequired_FalseOnly(h, field, schema, at) ==
  IF ~HasKey(schema.properties, field)
    THEN [name |-> "TypeError", template |-> ReadOfUndefinedTemplate,
          codaType |-> "", field |-> <<>>, at |-> at]
    ELSE assertCondition(h[Get(schema.properties, field)].required # Val(FALSE),
           [name |-> "UserVisibleError", template |-> MustBeRequiredTemplate,
            codaType |-> schema.codaType.v, field |-> field, at |-> at])

\* properties[field].required: reading .required of a missing property is a TypeError
checkSchemaPropertyIsRequired(h, field, schema, at) ==
  IF ~HasKey(schema.properties, field)
    THEN [name |-> "TypeError", template |-> ReadOfUndefinedTemplate,
          codaType |-> "", field |-> <<>>, at |-> at]
    ELSE assertCondition(TruthyBool(h[Get(schema.properties, field)].required),
           [name |-> "UserVisibleError", template |-> MustBeRequiredTemplate,
            codaType |-> schema.codaType.v, field |-> field, at |-> at])

\* the first error of a sequence of checks, in order
RECURSIVE FirstError(_)
FirstError(errs) ==
  IF errs = <<>> THEN NoError
  ELSE IF Head(errs) # NoError THEN Head(errs) ELSE FirstError(Tail(errs))

\* mutant: Person schemas are checked like Reference schemas
ValidateNode_PersonAsReference(h, schema, at) ==
  LET ct == schema.codaType IN
  FirstError(
    IF ct \in {Val(Reference), Val(Person)}
      THEN << checkRequiredFieldInObjectSchema(schema.id, F_id, ct.v, at),
              checkRequiredFieldInObjectSchema(schema.identity, F_identity, ct.v, at),
              checkRequiredFieldInObjectSchema(schema.primary, F_primary, ct.v, at),
              IF IsNullish(schema.id) THEN NoError
                ELSE checkSchemaPropertyIsRequired(h, schema.id.v, schema, at),
              IF IsNullish(schema.primary) THEN NoError
                ELSE checkSchemaPropertyIsRequired(h, schema.primary.v, schema, at) >>
      ELSE <<>>)

\* mutant: the identity of a Reference schema is not checked
ValidateNode_NoIdentityCheck(h, schema, at) ==
  LET ct == schema.codaType IN
  FirstError(
    (IF ct = Val(Reference)
       THEN << checkRequiredFieldInObjectSchema(schema.id, F_id, ct.v, at),
               checkRequiredFieldInObjectSchema(schema.primary, F_primary, ct.v, at),
               IF IsNullish(schema.id) THEN NoError
                 ELSE checkSchemaPropertyIsRequired(h, schema.id.v, schema, at),
               IF IsNullish(schema.primary) THEN NoError
                 ELSE checkSchemaPropertyIsRequired(h, schema.primary.v, schema, at) >>
       ELSE <<>>)
    \o
    (IF ct = Val(Person)
       THEN << checkRequiredFieldInObjectSchema(schema.id, F_id, ct.v, at),
               IF IsNullish(schema.id) THEN NoError
                 ELSE checkSchemaPropertyIsRequired(h, schema.id.v, schema, at) >>
       ELSE <<>>))

\* mutant: at a Reference schema primary is checked before identity
ValidateNode_PrimaryBeforeIdentity(h, schema, at) ==
  LET ct == schema.codaType IN
  FirstError(
    (IF ct = Val(Reference)
       THEN << checkRequiredFieldInObjectSchema(schema.id, F_id, ct.v, at),
               checkRequiredFieldInObjectSchema(schema.primary, F_primary, ct.v, at),
               checkRequiredFieldInObjectSchema(schema.identity, F_identity, ct.v, at),
               IF IsNullish(schema.id) THEN NoError
                 ELSE checkSchemaPropertyIsRequired(h, schema.id.v, schema, at),
               IF IsNullish(schema.primary) THEN NoError
                 ELSE checkSchemaPropertyIsRequired(h, schema.primary.v, schema, at) >>
       ELSE <<>>)
    \o
    (IF ct = Val(Person)
       THEN << checkRequiredFieldInObjectSchema(schema.id, F_id, ct.v, at),
               IF IsNullish(schema.id) THEN NoError
                 ELSE checkSchemaPropertyIsRequired(h, schema.id.v, schema, at) >>
       ELSE <<>>))

\* the checks of one schema object (the two codaType branches)
ValidateNode(h, schema, at) ==
  LET ct == schema.codaType IN
  FirstError(
    (IF ct = Val(Reference)
       THEN << checkRequiredFieldInObjectSchema(schema.id, F_id, ct.v, at),
               checkRequiredFieldInObjectSchema(schema.identity, F_identity, ct.v, at),
               checkRequiredFieldInObjectSchema(schema.primary, F_primary, ct.v, at),
               IF IsNullish(schema.id) THEN NoError
                 ELSE checkSchemaPropertyIsRequired(h, schema.id.v, schema, at),
               IF IsNullish(schema.primary) THEN NoError
                 ELSE checkSchemaPropertyIsRequired(h, schema.primary.v, schema, at) >>
       ELSE <<>>)
    \o
    (IF ct = Val(Person)
       THEN << checkRequiredFieldInObjectSchema(schema.id, F_id, ct.v, at),
               IF IsNullish(schema.id) THEN NoError
                 ELSE checkSchemaPropertyIsRequired(h, schema.id.v, schema, at) >>
       ELSE <<>>))

\* validateObjectSchema(schema): the error it throws, or NoError.  schema is
\* the object validated and at its address (0 for the copy not yet stored).
RECURSIVE validateObjectSchema(_, _, _)
RECURSIVE ValidateProperties(_, _, _)
validateObjectSchema(h, schema, at) ==
  LET own == ValidateNode(h, schema, at) IN
  IF own # NoError THEN own ELSE ValidateProperties(h, schema.properties, 1)

\* mutant: a nested object schema is checked but its own properties are not walked
RECURSIVE ValidateProperties_OneLevel(_, _, _)
ValidateProperties_OneLevel(h, properties, i) ==
  IF i > Len(properties) THEN NoError
  ELSE LET a == properties[i][2]
           err == IF h[a].type = Object THEN ValidateNode(h, h[a], a) ELSE NoError
       IN IF err # NoError THEN err ELSE ValidateProperties_OneLevel(h, properties, i + 1)

\* mutant: the items of an Array-typed property are validated too
RECURSIVE ValidateProperties_IntoArrays(_, _, _)
ValidateProperties_IntoArrays(h, properties, i) ==
  IF i > Len(properties) THEN NoError
  ELSE LET a == properties[i][2]
           b == IF h[a].type = Array THEN h[a].items[1] ELSE a
           err == IF h[b].type = Object THEN validateObjectSchema(h, h[b], b) ELSE NoError
       IN IF err # NoError THEN err ELSE ValidateProperties_IntoArrays(h, properties, i + 1)

\* the for loop over Object.entries(schema.properties), from entry i on
ValidateProperties(h, properties, i) ==
  IF i > Len(properties) THEN NoError
  ELSE LET a == properties[i][2]
           err == IF h[a].type = Object THEN validateObjectSchema(h, h[a], a) ELSE NoError
       IN IF err # NoError THEN err ELSE ValidateProperties(h, properties, i + 1)

\* mutant: the identity of the schema returned gets the placeholder packId
makeObjectSchema_PlaceholderPackId(h, schemaDef) ==
  LET schema == [h[schemaDef] EXCEPT !.type = Object]
      err == validateObjectSchema(h, schema, 0)
      identified == IF schema.identity.k = "value"
                      THEN [schema EXCEPT !.identity.v.packId = Val(PlaceholderIdentityPackId)]
                      ELSE schema
  IN IF err # NoError
       THEN [heap |-> h, ret |-> 0, error |-> err]
       ELSE [heap |-> Append(h, identified), ret |-> Len(h) + 1, error |-> NoError]

\* makeObjectSchema(schemaDef): {...schemaDef, type: ValueType.Object}, validated.
\* The result: the heap after the call, the address returned (0 when it throws)
\* and the error thrown.
makeObjectSchema(h, schemaDef) ==
  LET schema == [h[schemaDef] EXCEPT !.type = Object]
      err == validateObjectSchema(h, schema, 0)
  IN IF err # NoError
       THEN [heap |-> h, ret |-> 0, error |-> err]
       ELSE [heap |-> Append(h, schema), ret |-> Len(h) + 1, error |-> NoError]

(***************************************************************************)
(* Normalization.  The result of a call is the heap after it and the       *)
(* address it returns.                                                     *)
(***************************************************************************)
\* id ? normalizeSchemaKey(id) : undefined
NormalizeKeyRef(f) == IF TruthyKey(f) THEN Val(normalizeSchemaKey(f.v)) ELSE Undefined(NoKey)

\* featured ? featured.map(normalizeSchemaKey) : undefined  (an empty array is truthy)
NormalizeFeatured(f) ==
  IF f.k = "value" THEN Val([i \in DOMAIN f.v |-> normalizeSchemaKey(f.v[i])])
  ELSE Undefined(<<>>)

\* mutant: the original key wins over a declared fromKey when the key changes
NormalizedFromKey_KeyFirst(fromKey, normalizedKey, key) ==
  IF normalizedKey # key THEN Val(key)
  ELSE IF TruthyKey(fromKey) THEN fromKey ELSE Undefined(NoKey)

\* fromKey || (normalizedKey !== key ? key : undefined)
NormalizedFromKey(fromKey, normalizedKey, key) ==
  IF TruthyKey(fromKey) THEN fromKey
  ELSE IF normalizedKey # key THEN Val(key) ELSE Undefined(NoKey)

RECURSIVE normalizeSchema(_, _)
RECURSIVE NormalizeProperties(_, _, _, _)
normalizeSchema(h, schema) ==
  IF isArray(h[schema]) THEN
    LET r == normalizeSchema(h, h[schema].items[1])
        new == [SchemaObject(Array) EXCEPT !.items = <<r.ret>>]
    IN [heap |-> Append(r.heap, new), ret |-> Len(r.heap) + 1]
  ELSE IF isObject(h[schema]) THEN
    LET r == NormalizeProperties(h, schema, 1, <<>>)
        s == r.heap[schema]
        normalizedSchema ==
          [SchemaObject(Object) EXCEPT
             !.id = NormalizeKeyRef(h[schema].id),
             !.featured = NormalizeFeatured(h[schema].featured),
             !.primary = NormalizeKeyRef(h[schema].primary),
             !.properties = r.normalized,
             !.identity = Read(s.identity),
             !.codaType = Read(s.codaType)]
    IN [heap |-> Append(r.heap, normalizedSchema), ret |-> Len(r.heap) + 1]
  ELSE [heap |-> h, ret |-> schema]

\* mutant: Object.assign writes fromKey only, required is not carried over
RECURSIVE NormalizeProperties_DropsRequired(_, _, _, _)
NormalizeProperties_DropsRequired(h, schema, i, normalized) ==
  IF i > Len(h[schema].properties) THEN [heap |-> h, normalized |-> normalized]
  ELSE
    LET key == h[schema].properties[i][1]
        normalizedKey == normalizeSchemaKey(key)
        props == h[schema].properties[i][2]
        fromKey == Read(h[props].fromKey)
        r == normalizeSchema(h, props)
        assigned == [r.heap EXCEPT
                       ![r.ret].fromKey = NormalizedFromKey(fromKey, normalizedKey, key)]
    IN NormalizeProperties_DropsRequired(assigned, schema, i + 1,
                                         Set(normalized, normalizedKey, r.ret))

\* the for loop over Object.keys(schema.properties), from key i on; normalized is
\* the mapping built so far.  Object.assign writes required and fromKey into the
\* object normalizeSchema(props) returned.
NormalizeProperties(h, schema, i, normalized) ==
  IF i > Len(h[schema].properties) THEN [heap |-> h, normalized |-> normalized]
  ELSE
    LET key == h[schema].properties[i][1]
        normalizedKey == normalizeSchemaKey(key)
        props == h[schema].properties[i][2]
        required == Read(h[props].required)
        fromKey == Read(h[props].fromKey)
        r == normalizeSchema(h, props)
        assigned == [r.heap EXCEPT
                       ![r.ret].required = required,
                       ![r.ret].fromKey = NormalizedFromKey(fromKey, normalizedKey, key)]
    IN NormalizeProperties(assigned, schema, i + 1, Set(normalized, normalizedKey, r.ret))

(***************************************************************************)
(* Schema literals.  A literal is a schema object whose properties and     *)
(* items hold literals instead of addresses; declaring it allocates one    *)
(* heap object per literal, children first.  Value is the inverse: the     *)
(* literal an address denotes, used to compare schemas field for field.    *)
(***************************************************************************)
RECURSIVE Declare(_, _)
RECURSIVE DeclareProperties(_, _, _, _)
Declare(h, lit) ==
  IF lit.type = Array THEN
    LET r == Declare(h, lit.items[1])
    IN [heap |-> Append(r.heap, [lit EXCEPT !.items = <<r.ret>>]), ret |-> Len(r.heap) + 1]
  ELSE IF lit.properties # <<>> THEN
    LET r == DeclareProperties(h, lit.properties, 1, <<>>)
    IN [heap |-> Append(r.heap, [lit EXCEPT !.properties = r.properties]),
        ret |-> Len(r.heap) + 1]
  ELSE [heap |-> Append(h, lit), ret |-> Len(h) + 1]

DeclareProperties(h, properties, i, acc) ==
  IF i > Len(properties) THEN [heap |-> h, properties |-> acc]
  ELSE LET r == Declare(h, properties[i][2])
       IN DeclareProperties(r.heap, properties, i + 1, Append(acc, <<properties[i][1], r.ret>>))

RECURSIVE Value(_, _)
Value(h, a) ==
  [h[a] EXCEPT
     !.items = [i \in DOMAIN h[a].items |-> Value(h, h[a].items[i])],
     !.properties = [i \in DOMAIN h[a].properties |->
                       <<h[a].properties[i][1], Value(h, h[a].properties[i][2])>>]]

(***************************************************************************)
(* The schemas a pack author declares, for validation: a top-level object  *)
(* schema with properties rowId and title and possibly a property child    *)
(* that holds a nested object schema or an array of one, to MaxDepth.      *)
(***************************************************************************)
K_rowId == <<"r", "o", "w", "I", "d">>
K_title == <<"t", "i", "t", "l", "e">>
K_child == <<"c", "h", "i", "l", "d">>
\* a key that is not a property of any declared schema
K_none == <<"n", "o", "n", "e">>

RequiredFlags == {Absent(FALSE), Val(FALSE), Val(TRUE)}

ScalarLit(type, required) == [SchemaObject(type) EXCEPT !.required = required]
ArrayLit(items) == [SchemaObject(Array) EXCEPT !.items = <<items>>]

RowIdentity == Val([name |-> "Row", packId |-> Absent(0)])

\* codaType, id, identity and primary of a declared object schema
Header(codaType, id, identity, primary) ==
  [codaType |-> codaType, id |-> id, identity |-> identity, primary |-> primary]

IdChoices == {Absent(NoKey), Null(NoKey), Val(K_rowId), Val(K_none)}
PrimaryChoices == {Absent(NoKey), Val(K_title), Val(K_none)}
IdentityChoices == {Absent(NoIdentity), RowIdentity}

TopHeaders ==
  {Header(Absent(NoStr), Absent(NoKey), Absent(NoIdentity), Absent(NoKey))}
  \cup {Header(Val(Person), id, Absent(NoIdentity), Absent(NoKey)) : id \in IdChoices}
  \cup {Header(Val(Person), Val(K_rowId), RowIdentity, Val(K_title))}
  \cup {Header(Val(Reference), id, identity, primary) :
          id \in IdChoices, identity \in IdentityChoices, primary \in PrimaryChoices}

\* nested object schemas: a header and the required flag of rowId (title is required)
NestedHeaders ==
  { <<Header(Absent(NoStr), Absent(NoKey), Absent(NoIdentity), Absent(NoKey)), Val(TRUE)>>,
    <<Header(Val(Person), Val(K_rowId), Absent(NoIdentity), Absent(NoKey)), Val(TRUE)>>,
    <<Header(Val(Person), Val(K_rowId), Absent(NoIdentity), Absent(NoKey)), Absent(FALSE)>>,
    <<Header(Val(Reference), Val(K_rowId), Absent(NoIdentity), Val(K_title)), Val(TRUE)>> }

\* an object literal; children is <<>> or <<the literal of property child>>
ObjectLit(type, hdr, rowIdRequired, titleRequired, children) ==
  [SchemaObject(type) EXCEPT
     !.codaType = hdr.codaType, !.id = hdr.id,
     !.identity = hdr.identity, !.primary = hdr.primary,
     !.properties =
        << <<K_rowId, ScalarLit(Number, rowIdRequired)>>,
           <<K_title, ScalarLit(String, titleRequired)>> >>
        \o [i \in DOMAIN children |-> <<K_child, children[i]>>]]

\* the literals a property child can hold, nested to depth d
RECURSIVE ChildLits(_)
ChildLits(d) ==
  IF d = 0 THEN {}
  ELSE LET below == {<<>>} \cup {<<c>> : c \in ChildLits(d - 1)}
           objects == {ObjectLit(Object, nh[1], nh[2], Val(TRUE), children) :
                         nh \in NestedHeaders, children \in below}
       IN objects \cup {ArrayLit(o) : o \in objects}

ValidationLits ==
  {ObjectLit(Object, hdr, r1, r2, children) :
     hdr \in TopHeaders, r1 \in RequiredFlags, r2 \in {Absent(FALSE), Val(TRUE)},
     children \in {<<>>} \cup {<<c>> : c \in ChildLits(MaxDepth)}}
  \cup
  {ObjectLit(NoType, hdr, r1, Val(TRUE), <<>>) : hdr \in TopHeaders, r1 \in RequiredFlags}

(***************************************************************************)
(* The state machine: the declared schema is at address root; calls is the *)
(* history of library calls made, each with its argument, the address      *)
(* returned (0 when it threw) and the error thrown.                        *)
(***************************************************************************)
Call(op, arg, ret, error) == [op |-> op, arg |-> arg, ret |-> ret, error |-> error]

\* the addresses a next call can be given: the declared schema and what calls returned
Args == ({root} \cup {calls[i].ret : i \in DOMAIN calls}) \ {0}

InitValidate ==
  \E lit \in ValidationLits :
    LET d == Declare(<<>>, lit) IN
    /\ heap = d.heap
    /\ root = d.ret
    /\ calls = <<>>
    /\ KeyIdle /\ FetchIdle /\ FormulaIdle

MakeObjectSchema ==
  /\ Len(calls) < MaxCalls
  /\ \E arg \in Args :
       /\ heap[arg].type \in {Object, NoType}
       /\ LET r == makeObjectSchema(heap, arg) IN
          /\ heap' = r.heap
          /\ calls' = Append(calls, Call("makeObjectSchema", arg, r.ret, r.error))
  /\ UNCHANGED <<root, keyVars, fetchVars, formulaVars>>

NextValidate == MakeObjectSchema

SpecValidate == InitValidate /\ [][NextValidate]_vars

(***************************************************************************)
(* Properties of validation (checked under SpecValidate).                  *)
(***************************************************************************)
MakeCalls == {i \in DOMAIN calls : calls[i].op = "makeObjectSchema"}

\* the property a key field names exists and is marked required: true
MarkedRequired(h, schema, keyField) ==
  /\ keyField.k = "value"
  /\ HasKey(schema.properties, keyField.v)
  /\ h[Get(schema.properties, keyField.v)].required = Val(TRUE)

\* the names of the fields among id, identity, primary that are null or undefined
MissingFields(schema) ==
  {f \in {F_id, F_identity, F_primary} :
     \/ f = F_id /\ schema.id.k # "value"
     \/ f = F_identity /\ schema.identity.k # "value"
     \/ f = F_primary /\ schema.primary.k # "value"}

\* the invariants of the data model, for one object schema
ViolatesInvariants(h, schema) ==
  \/ /\ schema.codaType = Val(Reference)
     /\ \/ MissingFields(schema) # {}
        \/ ~MarkedRequired(h, schema, schema.id)
        \/ ~MarkedRequired(h, schema, schema.primary)
  \/ /\ schema.codaType = Val(Person)
     /\ ~MarkedRequired(h, schema, schema.id)

\* the schema objects reachable from a through Object-typed properties only
RECURSIVE ObjectDescendants(_, _)
ObjectDescendants(h, a) ==
  {a} \cup UNION {ObjectDescendants(h, h[a].properties[i][2]) :
                    i \in {j \in DOMAIN h[a].properties : h[h[a].properties[j][2]].type = Object}}

\* the schema objects reachable from a through properties and array items
RECURSIVE Descendants(_, _)
Descendants(h, a) ==
  {a} \cup UNION {Descendants(h, h[a].properties[i][2]) : i \in DOMAIN h[a].properties}
      \cup UNION {Descendants(h, h[a].items[i]) : i \in DOMAIN h[a].items}

\* C1: makeObjectSchema on a Reference schema with id, identity or primary null or
\* undefined raises 'Objects with codaType "reference" require a "<field>" property in
\* the schema definition.' naming a missing field, and returns no schema.
C1_ReferenceRequiresFields ==
  \A i \in MakeCalls :
    LET c == calls[i]
        def == heap[c.arg]
    IN (def.codaType = Val(Reference) /\ MissingFields(def) # {}) =>
         /\ c.ret = 0
         /\ c.error.template = RequireFieldTemplate
         /\ c.error.codaType = "reference"
         /\ c.error.field \in MissingFields(def)
         /\ c.error.at = 0

\* a Reference schema whose id is null and whose primary is missing was rejected
C1_Witness ==
  \E i \in MakeCalls :
    /\ heap[calls[i].arg].codaType = Val(Reference)
    /\ heap[calls[i].arg].id = Null(NoKey)
    /\ heap[calls[i].arg].primary = Absent(NoKey)
    /\ calls[i].error.field = F_id

C3_PersonRequiresOnlyId ==
  \A i \in MakeCalls :
    LET c == calls[i]
        def == heap[c.arg]
    IN (def.codaType = Val(Person) /\ ObjectDescendants(heap, c.arg) = {c.arg}) =>
         (c.ret # 0 <=> MarkedRequired(heap, def, def.id))

\* a Person schema with a required id and neither primary nor identity was accepted
C3_Witness ==
  \E i \in MakeCalls :
    LET def == heap[calls[i].arg] IN
    /\ def.codaType = Val(Person)
    /\ ObjectDescendants(heap, calls[i].arg) = {calls[i].arg}
    /\ def.primary = Absent(NoKey)
    /\ def.identity = Absent(NoIdentity)
    /\ calls[i].ret # 0

\* the schema of Scenario A, exactly as given
ScenarioA ==
  ObjectLit(Object,
            Header(Val(Reference), Val(K_rowId), Absent(NoIdentity), Val(K_title)),
            Val(TRUE), Val(TRUE), <<>>)
ScenarioAWithIdentity == [ScenarioA EXCEPT !.identity = RowIdentity]

\* C4 as stated: constructing the schema of Scenario A succeeds and returns a schema
\* of the same shape.
C4_ScenarioASucceeds ==
  \A i \in MakeCalls :
    Value(heap, calls[i].arg) = ScenarioA =>
      (calls[i].ret # 0 /\ Value(heap, calls[i].ret) = ScenarioA)

\* C4 amended: constructing the schema of Scenario A exactly as given fails with
\* 'Objects with codaType "reference" require a "identity" property in the schema
\* definition.'; with an identity added it succeeds and returns a schema of the same
\* shape as the input.
C4_ScenarioANeedsIdentity ==
  \A i \in MakeCalls :
    LET c == calls[i] IN
    /\ Value(heap, c.arg) = ScenarioA =>
         /\ c.ret = 0
         /\ c.error.template = RequireFieldTemplate
         /\ c.error.codaType = "reference"
         /\ c.error.field = F_identity
    /\ Value(heap, c.arg) = ScenarioAWithIdentity =>
         (c.ret # 0 /\ Value(heap, c.ret) = ScenarioAWithIdentity)

\* makeObjectSchema was called on the schema of Scenario A
C4_Witness ==
  \E i \in MakeCalls : Value(heap, calls[i].arg) = ScenarioA /\ calls[i].ret = 0

\* C5: whenever validation fails, the error message names the codaType of the
\* offending schema and the missing or misconfigured field.
C5_ErrorNamesCodaTypeAndField ==
  \A i \in MakeCalls :
    calls[i].ret = 0 =>
      /\ calls[i].error.codaType \in {Person, Reference}
      /\ calls[i].error.field # <<>>

\* C6: makeObjectSchema raises if any object schema reachable from the top-level one
\* through a chain of Object-typed properties violates the Reference or Person
\* invariants, also when the top-level schema has no codaType.
C6_ValidationRecursesThroughObjects ==
  \A i \in MakeCalls :
    (\E a \in ObjectDescendants(heap, calls[i].arg) : ViolatesInvariants(heap, heap[a]))
      => calls[i].ret = 0

\* a top-level schema without codaType was rejected for a violation two levels down,
\* below objects that satisfy the invariants
C6_Witness ==
  \E i \in MakeCalls :
    LET arg == calls[i].arg IN
    /\ heap[arg].codaType = Absent(NoStr)
    /\ calls[i].ret = 0
    /\ \E a \in ObjectDescendants(heap, arg), b \in ObjectDescendants(heap, arg) :
         /\ a # arg /\ b # a /\ b # arg
         /\ b \in ObjectDescendants(heap, a)
         /\ ~ViolatesInvariants(heap, heap[a])
         /\ ViolatesInvariants(heap, heap[b])
         /\ calls[i].error.at = b

\* C7: an object schema that violates the invariants but is reachable only through
\* the items of an Array-typed property does not make makeObjectSchema fail.
C7_ValidationSkipsArrays ==
  \A i \in MakeCalls :
    (\A a \in ObjectDescendants(heap, calls[i].arg) : ~ViolatesInvariants(heap, heap[a]))
      => calls[i].ret # 0

\* a schema was accepted although an object schema inside an array violates the invariants
C7_Witness ==
  \E i \in MakeCalls :
    /\ calls[i].ret # 0
    /\ \E a \in Descendants(heap, calls[i].arg) \ ObjectDescendants(heap, calls[i].arg) :
         heap[a].type = Object /\ ViolatesInvariants(heap, heap[a])

\* C8: makeObjectSchema modifies no schema object that exists, and the schema it
\* returns has exactly the fields of the definition passed to it (identity included,
\* no packId added) plus type = Object.
C8_MakeObjectSchemaFrame ==
  [][(calls' # calls /\ calls'[Len(calls')].op = "makeObjectSchema") =>
       LET c == calls'[Len(calls')] IN
       /\ \A a \in DOMAIN heap : heap'[a] = heap[a]
       /\ c.ret # 0 =>
            /\ c.ret \notin DOMAIN heap
            /\ heap'[c.ret] = [heap[c.arg] EXCEPT !.type = Object]]_vars

\* a definition without a type field and with an identity was accepted
C8_Witness ==
  \E i \in MakeCalls :
    /\ calls[i].ret # 0
    /\ heap[calls[i].arg].type = NoType
    /\ heap[calls[i].arg].identity = RowIdentity
    /\ heap[calls[i].ret].identity = RowIdentity

(***************************************************************************)
(* The order of validation.  The schemas declared are the top-level        *)
(* schemas without nested schemas, and schemas with two nested properties, *)
(* child and sibling, in this order.                                       *)
(***************************************************************************)
K_sibling == <<"s", "i", "b", "l", "i", "n", "g">>

TwoChildLit(hdr, child, sibling) ==
  [ObjectLit(Object, hdr, Val(TRUE), Val(TRUE), <<child>>) EXCEPT
     !.properties = @ \o << <<K_sibling, sibling>> >>]

OrderLits ==
  {ObjectLit(Object, hdr, r1, r2, <<>>) :
     hdr \in TopHeaders, r1 \in RequiredFlags, r2 \in {Absent(FALSE), Val(TRUE)}}
  \cup
  {TwoChildLit(hdr, child, sibling) :
     hdr \in {Header(Absent(NoStr), Absent(NoKey), Absent(NoIdentity), Absent(NoKey)),
              Header(Val(Reference), Val(K_rowId), RowIdentity, Val(K_title)),
              Header(Val(Reference), Val(K_rowId), RowIdentity, Absent(NoKey))},
     child \in ChildLits(MaxDepth - 1), sibling \in ChildLits(MaxDepth - 1)}

InitOrder ==
  \E lit \in OrderLits :
    LET d == Declare(<<>>, lit) IN
    /\ heap = d.heap
    /\ root = d.ret
    /\ calls = <<>>
    /\ KeyIdle /\ FetchIdle /\ FormulaIdle

SpecOrder == InitOrder /\ [][NextValidate]_vars

\* a violation: what is wrong (a field is missing, the property a field names is not
\* required), the field, and the schema object that has it
Violation(kind, field, at) == [kind |-> kind, field |-> field, at |-> at]
NoViolation == Violation("none", <<>>, 0)

\* the violations of one schema object, in the order in which they are reported
OwnViolations(h, schema, at) ==
  LET Unmarked(f) == f.k = "value" /\ ~MarkedRequired(h, schema, f)
      ordered ==
        IF schema.codaType = Val(Reference) THEN
          << <<IsNullish(schema.id), Violation("missing", F_id, at)>>,
             <<IsNullish(schema.identity), Violation("missing", F_identity, at)>>,
             <<IsNullish(schema.primary), Violation("missing", F_primary, at)>>,
             <<Unmarked(schema.id), Violation("not required", schema.id.v, at)>>,
             <<Unmarked(schema.primary), Violation("not required", schema.primary.v, at)>> >>
        ELSE IF schema.codaType = Val(Person) THEN
          << <<IsNullish(schema.id), Violation("missing", F_id, at)>>,
             <<Unmarked(schema.id), Violation("not required", schema.id.v, at)>> >>
        ELSE <<>>
      present == SelectSeq(ordered, LAMBDA e : e[1])
  IN [n \in DOMAIN present |-> present[n][2]]

\* the first violation in the order of the claim: a schema object's own violations,
\* then those of its Object-typed properties, property by property
RECURSIVE FirstViolation(_, _, _)
RECURSIVE FirstNestedViolation(_, _, _)
FirstViolation(h, schema, at) ==
  LET own == OwnViolations(h, schema, at) IN
  IF own # <<>> THEN own[1] ELSE FirstNestedViolation(h, schema.properties, 1)

FirstNestedViolation(h, properties, i) ==
  IF i > Len(properties) THEN NoViolation
  ELSE LET a == properties[i][2]
           v == IF h[a].type = Object THEN FirstViolation(h, h[a], a) ELSE NoViolation
       IN IF v # NoViolation THEN v ELSE FirstNestedViolation(h, properties, i + 1)

\* the error reports the violation: a missing field by the require-a-field message
\* naming it, a property not required by the must-be-required message naming it (by
\* the TypeError of reading it when the schema has no such property)
Reports(error, v, schema) ==
  /\ error.at = v.at
  /\ v.kind = "missing" =>
       /\ error.template = RequireFieldTemplate /\ error.field = v.field
       /\ error.codaType = schema.codaType.v
  /\ v.kind = "not required" =>
       IF HasKey(schema.properties, v.field)
         THEN /\ error.template = MustBeRequiredTemplate /\ error.field = v.field
              /\ error.codaType = schema.codaType.v
         ELSE error.name = "TypeError"

\* C28: makeObjectSchema reports the first violation in a fixed order: at a Reference
\* schema a missing id, then a missing identity, then a missing primary, then the id
\* property not required, then the primary property not required; a schema's own
\* violations before those of its nested object properties; nested object properties
\* in property order; and nothing after the first violation.
C28_FirstViolationReported ==
  \A i \in MakeCalls :
    LET c == calls[i]
        schema == [heap[c.arg] EXCEPT !.type = Object]
        v == FirstViolation(heap, schema, 0)
    IN IF v = NoViolation THEN c.ret # 0
       ELSE /\ c.ret = 0
            /\ Reports(c.error, v, IF v.at = 0 THEN schema ELSE heap[v.at])

\* a schema whose properties child and sibling both hold a schema with a violation
\* was rejected for that of child; the schema itself has none
C28_Witness ==
  \E i \in MakeCalls :
    LET properties == heap[calls[i].arg].properties IN
    /\ Len(properties) = 4
    /\ heap[calls[i].arg].codaType = Val(Reference)
    /\ ViolatesInvariants(heap, heap[properties[3][2]])
    /\ ViolatesInvariants(heap, heap[properties[4][2]])
    /\ calls[i].ret = 0
    /\ calls[i].error.at = properties[3][2]

(***************************************************************************)
(* The schemas a pack author declares, for normalization: scalars, arrays  *)
(* and object schemas whose keys are canonical already (AB), change under  *)
(* normalization (a b, Full Name:), collide (a b with AB), keep a          *)
(* character of the colon replacement (::) or are blank.                   *)
(***************************************************************************)
K_AB == <<"A", "B">>
K_a_b == <<"a", " ", "b">>
K_FullNameColon == <<"F", "u", "l", "l", " ", "N", "a", "m", "e", ":">>
K_colons == <<":", ":">>
K_blank == <<" ", " ">>
\* the empty string as a property key
K_empty == <<>>
\* an explicit fromKey
K_raw == <<"r", "a", "w">>

NormKeys == {K_AB, K_a_b, K_FullNameColon, K_colons, K_blank, K_empty}
\* the keys of a schema with two properties: every two keys in one order, and the
\* two keys that normalize to 'AB' in both orders
KeyOrder == <<K_AB, K_a_b, K_FullNameColon, K_colons, K_blank, K_empty>>
KeyPairs ==
  {<<KeyOrder[p[1]], KeyOrder[p[2]]>> :
     p \in {q \in (DOMAIN KeyOrder) \X (DOMAIN KeyOrder) : q[1] < q[2]}}
  \cup {<<K_a_b, K_AB>>}

PropertyLit(lit, required, fromKey) == [lit EXCEPT !.required = required, !.fromKey = fromKey]

ScalarPropertyLits ==
  {PropertyLit(SchemaObject(String), required, fromKey) :
     required \in {Absent(FALSE), Val(TRUE)},
     fromKey \in {Absent(NoKey), Val(K_raw), Val(<<>>)}}

\* nested object schemas with one property, to depth d
RECURSIVE NestedLits(_)
NestedLits(d) ==
  IF d = 0 THEN {}
  ELSE LET below == NestedLits(d - 1) IN
       {[SchemaObject(Object) EXCEPT !.properties = << <<key, lit>> >>, !.id = Val(key)] :
          key \in {K_a_b, K_AB},
          lit \in {PropertyLit(SchemaObject(Number), required, Absent(NoKey)) :
                     required \in {Absent(FALSE), Val(TRUE)}}
                  \cup below \cup {ArrayLit(o) : o \in below}}

\* what a property of a top-level schema with two properties can hold
SimplePropertyLits ==
  ScalarPropertyLits
  \cup {PropertyLit(ArrayLit(SchemaObject(Number)), Val(TRUE), Absent(NoKey))}

\* what the property of a top-level schema with one property can hold
PropertyLits ==
  SimplePropertyLits
  \cup NestedLits(MaxDepth - 1)
  \cup {ArrayLit(o) : o \in NestedLits(MaxDepth - 1)}

\* the key references: none declared, or id names the first key, primary the last
\* and featured lists the keys last to first
FirstKey(properties) == properties[1][1]
LastKey(properties) == properties[Len(properties)][1]
KeyRef(declared, key) == IF declared THEN Val(key) ELSE Absent(NoKey)
Featured(declared, properties) ==
  IF declared
    THEN Val([i \in DOMAIN properties |-> properties[Len(properties) + 1 - i][1]])
    ELSE Absent(<<>>)
\* the fields normalization carries over: none declared, or each one
Carried(declared) ==
  IF declared
    THEN [codaType |-> Val(Reference), identity |-> RowIdentity, description |-> Val("a row")]
    ELSE [codaType |-> Absent(NoStr), identity |-> Absent(NoIdentity),
          description |-> Absent(NoStr)]

NormObjectLit(properties, refs, featured, carried) ==
  [SchemaObject(Object) EXCEPT
     !.properties = properties,
     !.id = KeyRef(refs, FirstKey(properties)),
     !.primary = KeyRef(refs, LastKey(properties)),
     !.featured = Featured(featured, properties),
     !.codaType = carried.codaType, !.identity = carried.identity,
     !.description = carried.description]

PropertyMaps ==
  {<< <<k, lit>> >> : k \in NormKeys, lit \in PropertyLits}
  \cup {<< <<ks[1], l1>>, <<ks[2], l2>> >> :
          ks \in KeyPairs,
          l1 \in SimplePropertyLits, l2 \in SimplePropertyLits}

NormalizationLits ==
  {NormObjectLit(properties, declared, declared, Carried(declared)) :
     properties \in PropertyMaps, declared \in BOOLEAN}
  \cup {[SchemaObject(type) EXCEPT !.codaType = hint, !.description = Val("a value")] :
          type \in {Boolean, Number, String}, hint \in {Absent(NoStr), Val("date")}}
  \cup {[ArrayLit(lit) EXCEPT !.description = Val("a list")] :
          lit \in {SchemaObject(String)} \cup NestedLits(MaxDepth)}

\* const p = {...}; {k1: p, k2: p}: two properties that are declared with the same
\* scalar literal can hold one and the same schema object
CanShare(lit) ==
  /\ lit.type = Object
  /\ Len(lit.properties) = 2
  /\ lit.properties[1][2] = lit.properties[2][2]
  /\ lit.properties[1][2].type \in {Boolean, Number, String}

\* the heap in which the second property of the object at a holds the schema object
\* of the first
ShareProperties(h, a) ==
  [h EXCEPT ![a].properties[2] = <<h[a].properties[2][1], h[a].properties[1][2]>>]

InitNormalize ==
  \E lit \in NormalizationLits, shared \in BOOLEAN :
    LET d == Declare(<<>>, lit) IN
    /\ heap = IF shared /\ CanShare(lit) THEN ShareProperties(d.heap, d.ret) ELSE d.heap
    /\ root = d.ret
    /\ calls = <<>>
    /\ KeyIdle /\ FetchIdle /\ FormulaIdle

NormalizeSchema ==
  /\ Len(calls) < MaxCalls
  /\ \E arg \in Args :
       LET r == normalizeSchema(heap, arg) IN
       /\ heap' = r.heap
       /\ calls' = Append(calls, Call("normalizeSchema", arg, r.ret, NoError))
  /\ UNCHANGED <<root, keyVars, fetchVars, formulaVars>>

NextNormalize == NormalizeSchema

SpecNormalize == InitNormalize /\ [][NextNormalize]_vars

(***************************************************************************)
(* Properties of normalization (checked under SpecNormalize).              *)
(***************************************************************************)
NormalizeCalls == {i \in DOMAIN calls : calls[i].op = "normalizeSchema"}

\* C9: normalizeSchema(normalizeSchema(s)) equals normalizeSchema(s) field for field.
C9_NormalizeIdempotent ==
  \A i \in NormalizeCalls, j \in NormalizeCalls :
    (i < j /\ calls[j].arg = calls[i].ret) =>
      Value(heap, calls[j].ret) = Value(heap, calls[i].ret)

\* a normalized property matches an original key when its fromKey is that key, or its
\* key is that key (the key was unchanged)
MatchesOriginal(h, property, key) == h[property[2]].fromKey = Val(key) \/ property[1] = key

\* C10: the normalized object schema has as many properties as the original, and each
\* original property has exactly one normalized property matching its key.
C10_NormalizePreservesStructure ==
  \A i \in NormalizeCalls :
    LET original == heap[calls[i].arg].properties
        normalized == heap[calls[i].ret].properties
    IN heap[calls[i].arg].type = Object =>
         /\ Len(normalized) = Len(original)
         /\ \A k \in DOMAIN original :
              Cardinality({n \in DOMAIN normalized :
                             MatchesOriginal(heap, normalized[n], original[k][1])}) = 1

\* the call made by the step, when the step is a call of normalizeSchema
IsNormalizeStep == calls' # calls /\ calls'[Len(calls')].op = "normalizeSchema"
LastCall == calls'[Len(calls')]

\* C11: normalizeSchema leaves its input, and every schema object that exists when it
\* is called, with the fields and values they had.
C11_NormalizeDoesNotMutate ==
  [][IsNormalizeStep => \A a \in DOMAIN heap : heap'[a] = heap[a]]_vars

\* the properties of an object schema that reach the normalized schema: those whose
\* canonical key is not taken again by a later property
Surviving(properties) ==
  {i \in DOMAIN properties :
     \A j \in DOMAIN properties :
       j > i => normalizeSchemaKey(properties[j][1]) # normalizeSchemaKey(properties[i][1])}

\* fromKey unset: undefined, or no such field
Unset(f) == f.k \in {"absent", "undefined"}

\* C12 as stated: a property's fromKey in the output is its original key whenever the
\* property declared a fromKey or its canonical key differs from its key, and is
\* unset otherwise.
C12_FromKeyIsOriginalKey ==
  [][IsNormalizeStep /\ heap[LastCall.arg].type = Object =>
       LET original == heap[LastCall.arg].properties
           normalized == heap'[LastCall.ret].properties
       IN \A i \in Surviving(original) :
            LET key == original[i][1]
                out == heap'[Get(normalized, normalizeSchemaKey(key))]
            IN IF heap[original[i][2]].fromKey.k = "value" \/ normalizeSchemaKey(key) # key
                 THEN out.fromKey = Val(key)
                 ELSE Unset(out.fromKey)]_vars

\* the keys under which the schema object of property i is written by Object.assign:
\* a scalar schema object is returned as it is, so every key that holds it; an array
\* or object schema is copied, so its own key only
WrittenUnder(h, properties, i) ==
  IF h[properties[i][2]].type \in {Array, Object} THEN {i}
  ELSE {j \in DOMAIN properties : properties[j][2] = properties[i][2]}

\* the first of a set of property positions
First(positions) == CHOOSE i \in positions : \A j \in positions : i <= j

\* C12 amended: a property's fromKey in the output is the non-empty fromKey it
\* declared, kept as declared; otherwise its original key when the canonical key
\* differs from it, and undefined when not.  One scalar schema object held under
\* several keys has one fromKey for all of them: the declared one, otherwise the
\* first of its keys that differs from its canonical form, otherwise undefined.
C12_FromKeyDeclaredOrOriginal ==
  [][IsNormalizeStep /\ heap[LastCall.arg].type = Object =>
       LET original == heap[LastCall.arg].properties
           normalized == heap'[LastCall.ret].properties
       IN \A i \in Surviving(original) :
            LET key == original[i][1]
                out == heap'[Get(normalized, normalizeSchemaKey(key))]
                declared == heap[original[i][2]].fromKey
                changed == {j \in WrittenUnder(heap, original, i) :
                              normalizeSchemaKey(original[j][1]) # original[j][1]}
            IN out.fromKey =
                 IF TruthyKey(declared) THEN declared
                 ELSE IF changed # {} THEN Val(original[First(changed)][1])
                 ELSE Undefined(NoKey)]_vars

\* a property 'a b' that declared fromKey 'raw' was normalized to 'AB' with fromKey
\* 'raw', and a property 'Full Name:' to 'FullName' with fromKey 'Full Name:'
C12_Witness ==
  \E i \in NormalizeCalls :
    LET original == heap[calls[i].arg].properties
        normalized == heap[calls[i].ret].properties
    IN /\ calls[i].arg = root
       /\ Len(original) = 2
       /\ original[1][1] = K_a_b /\ original[2][1] = K_FullNameColon
       /\ original[1][2] # original[2][2]
       /\ heap[Get(normalized, K_AB)].fromKey = Val(K_raw)
       /\ heap[Get(normalized, normalizeSchemaKey(K_FullNameColon))].fromKey
            = Val(K_FullNameColon)

\* C13: when id, primary and the featured entries each name a key of properties,
\* the normalized id, primary and featured entries each name a key of the normalized
\* properties, the canonical form of the key they named; featured keeps its length
\* and order.
C13_KeyReferencesConsistent ==
  \A i \in NormalizeCalls :
    LET old == heap[calls[i].arg]
        new == heap[calls[i].ret]
        RefKept(was, is) ==
          was.k = "value" =>
            is = Val(normalizeSchemaKey(was.v)) /\ HasKey(new.properties, is.v)
    IN (/\ old.type = Object
        /\ old.id.k = "value" => HasKey(old.properties, old.id.v)
        /\ old.primary.k = "value" => HasKey(old.properties, old.primary.v)
        /\ old.featured.k = "value" =>
             \A n \in DOMAIN old.featured.v : HasKey(old.properties, old.featured.v[n])) =>
         /\ RefKept(old.id, new.id)
         /\ RefKept(old.primary, new.primary)
         /\ old.featured.k = "value" =>
              /\ new.featured.k = "value"
              /\ Len(new.featured.v) = Len(old.featured.v)
              /\ \A n \in DOMAIN old.featured.v :
                   /\ new.featured.v[n] = normalizeSchemaKey(old.featured.v[n])
                   /\ HasKey(new.properties, new.featured.v[n])

Overwritten(properties) == DOMAIN properties \ Surviving(properties)

\* the last property with the canonical key of property i
LastOf(properties, i) ==
  CHOOSE j \in Surviving(properties) :
    normalizeSchemaKey(properties[j][1]) = normalizeSchemaKey(properties[i][1])

\* C24: when two distinct keys of an object schema have the same canonical key,
\* normalizeSchema returns, and the result holds one property under that canonical
\* key, derived from the later of the two properties: it has the later property's
\* type and required flag and the fromKey normalization gives the later property
\* (the fromKey it declared, else its key if that is not canonical, else none), and
\* nothing of the earlier property, its key as fromKey included.
C24_LaterPropertyWins ==
  [][IsNormalizeStep /\ heap[LastCall.arg].type = Object =>
       LET original == heap[LastCall.arg].properties
           normalized == heap'[LastCall.ret].properties
       IN \A i \in Overwritten(original) :
            LET j == LastOf(original, i)
                later == heap[original[j][2]]
                canonical == normalizeSchemaKey(original[i][1])
                under == {n \in DOMAIN normalized : normalized[n][1] = canonical}
            IN /\ LastCall.ret # 0
               /\ Cardinality(under) = 1
               /\ Len(normalized) = Cardinality(Surviving(original))
               /\ \A n \in under :
                    LET out == heap'[normalized[n][2]] IN
                    /\ out.type = later.type
                    /\ out.required = Read(later.required)
                    /\ out.fromKey =
                         NormalizedFromKey(Read(later.fromKey), canonical, original[j][1])]_vars

\* C29: in the output of normalizeSchema on an object schema, the fromKey of every
\* property is what its own key and the fromKey it declared give (the declared
\* fromKey if not empty, else its key if that is not canonical, else none), also when
\* the schema object of the property is held under other keys too.
C29_FromKeyOwnOnly ==
  [][IsNormalizeStep /\ heap[LastCall.arg].type = Object =>
       LET original == heap[LastCall.arg].properties
           normalized == heap'[LastCall.ret].properties
       IN \A i \in Surviving(original) :
            LET key == original[i][1]
                canonical == normalizeSchemaKey(key)
            IN heap'[Get(normalized, canonical)].fromKey =
                 NormalizedFromKey(Read(heap[original[i][2]].fromKey), canonical, key)]_vars

(***************************************************************************)
(* normalizeSchemaKey on its own: a key is chosen, and the function is     *)
(* called on the key and on what earlier calls returned.                   *)
(***************************************************************************)
\* the characters of the keys: a lower-case and an upper-case letter, a digit, a
\* space, the colon and the underscore that replaces it
KeyChars == {"a", "B", "1", " ", ":", "_"}

\* the keys of at most MaxKeyLen characters
KeysUpTo(n) == UNION {[1..m -> KeyChars] : m \in 0..n}

InitKey ==
  /\ givenKey \in KeysUpTo(MaxKeyLen)
  /\ keyCalls = <<>>
  /\ SchemaIdle /\ FetchIdle /\ FormulaIdle

\* the strings a next call can be given: the key and what calls returned
KeyArgs == {givenKey} \cup {keyCalls[i].ret : i \in DOMAIN keyCalls}

NormalizeSchemaKey ==
  /\ Len(keyCalls) < MaxKeyCalls
  /\ \E arg \in KeyArgs :
       keyCalls' = Append(keyCalls, [arg |-> arg, ret |-> normalizeSchemaKey(arg)])
  /\ UNCHANGED <<givenKey, schemaVars, fetchVars, formulaVars>>

NextKey == NormalizeSchemaKey

SpecKey == InitKey /\ [][NextKey]_vars

\* C15: a call of normalizeSchemaKey on a result of normalizeSchemaKey returns its
\* argument, and two calls with the same argument return the same result.
C15_NormalizeSchemaKeyIdempotent ==
  \A i \in DOMAIN keyCalls, j \in DOMAIN keyCalls :
    /\ keyCalls[j].arg = keyCalls[i].ret => keyCalls[j].ret = keyCalls[j].arg
    /\ keyCalls[j].arg = keyCalls[i].arg => keyCalls[j].ret = keyCalls[i].ret

\* a key with a colon and two runs of letters was changed by the first call and the
\* second call was made on the result
C15_Witness ==
  /\ givenKey = <<"a", ":", "B">>
  /\ Len(keyCalls) = 2
  /\ keyCalls[1].arg = givenKey /\ keyCalls[1].ret = <<"A", "B">>
  /\ keyCalls[2].arg = keyCalls[1].ret

(***************************************************************************)
(* Keys in schemas: a behaviour either normalizes a key on its own or      *)
(* normalizes a declared schema.                                           *)
(***************************************************************************)
InitColon == InitKey \/ InitNormalize

NextColon == NextKey \/ NextNormalize

SpecColon == InitColon /\ [][NextColon]_vars

HasColon(key) == \E n \in DOMAIN key : key[n] = ":"

\* the keys an object schema holds: its property keys, id, primary and featured entries
KeysOf(schema) ==
  Range(Keys(schema.properties))
  \cup (IF schema.id.k = "value" THEN {schema.id.v} ELSE {})
  \cup (IF schema.primary.k = "value" THEN {schema.primary.v} ELSE {})
  \cup (IF schema.featured.k = "value" THEN Range(schema.featured.v) ELSE {})

\* C27: no result of normalizeSchemaKey contains a colon, and in a schema returned by
\* normalizeSchema on an object schema no property key, id, primary or featured entry
\* contains one, in the schema itself or in an object schema below it.
C27_NoColonInNormalizedKeys ==
  /\ \A i \in DOMAIN keyCalls : ~HasColon(keyCalls[i].ret)
  /\ \A i \in NormalizeCalls :
       heap[calls[i].arg].type = Object =>
         \A a \in Descendants(heap, calls[i].ret) :
           \A key \in KeysOf(heap[a]) : ~HasColon(key)

\* a schema whose keys 'Full Name:' and '::' are its id and primary was normalized to
\* one with id 'FullName' and primary '__'
C27_Witness ==
  \E i \in NormalizeCalls :
    /\ calls[i].arg = root
    /\ heap[root].id = Val(K_FullNameColon) /\ heap[root].primary = Val(K_colons)
    /\ heap[calls[i].ret].id = Val(<<"F", "u", "l", "l", "N", "a", "m", "e">>)
    /\ heap[calls[i].ret].primary = Val(<<"_", "_">>)
    /\ Keys(heap[calls[i].ret].properties) = <<heap[calls[i].ret].id.v, <<"_", "_">>>>

(***************************************************************************)
(* AuthenticatingFetcher (the compiled fetcher module).  A fetch call is   *)
(* an async function: it applies the authentication and hands the request  *)
(* to the transport, resumes when the transport has responded, and on the  *)
(* XML path resumes once more when the XML parser has finished.            *)
(*                                                                         *)
(* Header names of a response are sequences of one-character strings (the  *)
(* code lower-cases them); header names and values of a request, and URLs, *)
(* are only copied and compared and are TLA+ strings.                      *)
(***************************************************************************)
FetcherUserAgent == "Coda-Server-Fetcher"
MAX_CONTENT_LENGTH_BYTES == 25 * 1024 * 1024

\* the members of AuthenticationType that _applyAuthentication switches on
None == "None"
WebBasic == "WebBasic"
QueryParamToken == "QueryParamToken"
MultiQueryParamToken == "MultiQueryParamToken"
HeaderBearerToken == "HeaderBearerToken"
CodaApiHeaderBearerToken == "CodaApiHeaderBearerToken"
CustomHeaderToken == "CustomHeaderToken"
AWSSignature4 == "AWSSignature4"
OAuth2 == "OAuth2"

\* this._authDef: undefined, or the authentication definition of the pack
NoAuthDef ==
  [defined |-> FALSE, type |-> "", paramName |-> "", headerName |-> "", tokenPrefix |-> ""]
AuthDef(type, tokenPrefix) ==
  [defined |-> TRUE, type |-> type, paramName |-> "token", headerName |-> "X-Api-Key",
   tokenPrefix |-> tokenPrefix]

\* this._credentials: undefined, or the locally stored credentials; params is the
\* credentials object read as a dictionary of query parameters
NoCredentials ==
  [defined |-> FALSE, username |-> "", password |-> "", paramValue |-> "", token |-> "",
   params |-> <<>>]
Credentials(params) ==
  [defined |-> TRUE, username |-> "user", password |-> "pw", paramValue |-> "secret",
   token |-> "tok", params |-> params]

\* errors thrown by fetch: the template is the text of the code's message, detail and
\* length what the message interpolates
FetchError(template, detail, length) ==
  [name |-> "Error", template |-> template, detail |-> detail, length |-> length]
NoFetchError == [name |-> "", template |-> "", detail |-> "", length |-> 0]
MissingCredentials(type) ==
  FetchError("${this._authDef.type} authentication is required for this pack, but no local credentials were found. Run \"coda auth path/to/pack/manifest to set up credentials.\"",
             type, 0)
EmptyParamValue(paramName) ==
  FetchError("Param value for ${paramName} is empty. Please provide a value for this parameter or omit it.",
             paramName, 0)
NotYetImplemented == FetchError("Not yet implemented", "", 0)
BodyTooLarge(length) ==
  FetchError("Response body is too large for Coda. Body is ${responseBody.length} bytes.",
             "", length)
\* the rejection of the transport's promise (no connection, a status outside 2xx)
TransportError == FetchError("<rejected by request-promise-native>", "", 0)

\* URLSearchParams.delete: every pair of that name goes
SearchParamsDelete(query, name) == SelectSeq(query, LAMBDA pair : pair[1] # name)

\* URLSearchParams.set: the first pair of that name gets the value and the others go;
\* without such a pair one is appended
SearchParamsSet(query, name, value) ==
  IF \E i \in DOMAIN query : query[i][1] = name
    THEN LET first == CHOOSE i \in DOMAIN query :
                        query[i][1] = name /\ \A j \in 1..(i - 1) : query[j][1] # name
             kept == {i \in DOMAIN query : query[i][1] # name \/ i = first}
             Pick(n) == CHOOSE i \in kept : Cardinality({j \in kept : j <= i}) = n
         IN [n \in 1..Cardinality(kept) |->
               IF Pick(n) = first THEN <<name, value>> ELSE query[Pick(n)]]
    ELSE Append(query, <<name, value>>)

\* for (const [key, value] of entries) { delete(key); set(key, value) }, from entry i on
RECURSIVE Requeue(_, _, _)
Requeue(query, entries, i) ==
  IF i > Len(entries) THEN query
  ELSE Requeue(SearchParamsSet(SearchParamsDelete(query, entries[i][1]),
                               entries[i][1], entries[i][2]),
               entries, i + 1)

\* the loop over Object.entries(paramDict), from entry i on: the query reached, or
\* the error of the first empty value
RECURSIVE SetParams(_, _, _)
SetParams(query, paramDict, i) ==
  IF i > Len(paramDict) THEN [error |-> NoFetchError, query |-> query]
  ELSE IF paramDict[i][2] = "" THEN [error |-> EmptyParamValue(paramDict[i][1]), query |-> query]
  ELSE SetParams(SearchParamsSet(query, paramDict[i][1], paramDict[i][2]), paramDict, i + 1)

\* Buffer.from(text).toString('base64'), kept symbolic
Base64(text) == "base64(" \o text \o ")"

\* what _applyAuthentication returns, or the error it throws
Applied(url, headers, body, form) ==
  [error |-> NoFetchError, url |-> url, headers |-> headers, body |-> body, form |-> form]
Thrown(error, req) ==
  [error |-> error, url |-> req.url, headers |-> req.headers, body |-> req.body,
   form |-> req.form]

\* mutant: the unimplemented types pass the request through as type None does
applyAuthentication_UnimplementedPassThrough(f, req) ==
  IF ~f.authDef.defined THEN Applied(req.url, req.headers, req.body, req.form)
  ELSE IF ~f.credentials.defined THEN Thrown(MissingCredentials(f.authDef.type), req)
  ELSE Applied(req.url, req.headers, req.body, req.form)

\* _applyAuthentication({url, headers, body, form})
applyAuthentication(f, req) ==
  IF ~f.authDef.defined THEN Applied(req.url, req.headers, req.body, req.form)
  ELSE IF ~f.credentials.defined THEN Thrown(MissingCredentials(f.authDef.type), req)
  ELSE IF f.authDef.type = None THEN Applied(req.url, req.headers, req.body, req.form)
  ELSE IF f.authDef.type = WebBasic THEN
    Applied(req.url,
            Set(req.headers, "Authorization",
                "Basic " \o Base64(f.credentials.username \o ":" \o f.credentials.password)),
            req.body, req.form)
  ELSE IF f.authDef.type = QueryParamToken THEN
    LET entries == req.url.query
        withToken == SearchParamsSet(req.url.query, f.authDef.paramName,
                                     f.credentials.paramValue)
    IN Applied([req.url EXCEPT !.query = Requeue(withToken, entries, 1)],
               req.headers, req.body, req.form)
  ELSE IF f.authDef.type = MultiQueryParamToken THEN
    LET r == SetParams(req.url.query, f.credentials.params, 1) IN
    IF r.error # NoFetchError THEN Thrown(r.error, req)
    ELSE Applied([req.url EXCEPT !.query = r.query], req.headers, req.body, req.form)
  ELSE IF f.authDef.type \in {HeaderBearerToken, CodaApiHeaderBearerToken} THEN
    Applied(req.url, Set(req.headers, "Authorization", "Bearer " \o f.credentials.token),
            req.body, req.form)
  ELSE IF f.authDef.type = CustomHeaderToken THEN
    LET valuePrefix == IF f.authDef.tokenPrefix # "" THEN f.authDef.tokenPrefix \o " " ELSE ""
    IN Applied(req.url,
               Set(req.headers, f.authDef.headerName, valuePrefix \o f.credentials.token),
               req.body, req.form)
  ELSE Thrown(NotYetImplemented, req)

\* the options object handed to request-promise-native
TransportRequest(a, method) ==
  [url |-> a.url, method |-> method,
   headers |-> Set(a.headers, "User-Agent", FetcherUserAgent),
   body |-> a.body, form |-> a.form, resolveWithFullResponse |-> TRUE, timeout |-> 60000,
   forever |-> TRUE]

\* JavaScript values a response body can be: what it is, what typeof says of it,
\* and its length
RawBody(length) == [what |-> "raw string", typeof |-> "string", length |-> length]
DecodedObject == [what |-> "object", typeof |-> "object", length |-> 0]
DecodedArray == [what |-> "array", typeof |-> "object", length |-> 2]
DecodedNull == [what |-> "null", typeof |-> "object", length |-> 0]
DecodedNumber == [what |-> "number", typeof |-> "number", length |-> 0]
DecodedString == [what |-> "decoded string", typeof |-> "string", length |-> 4]
DecodedBoolean == [what |-> "boolean", typeof |-> "boolean", length |-> 0]
UndefinedValue == [what |-> "undefined", typeof |-> "undefined", length |-> 0]

\* a string is truthy unless it is empty
TruthyBody(body) == ~(body.typeof = "string" /\ body.length = 0)

\* mutant: responseBody.length > MAX_CONTENT_LENGTH_BYTES
TooLarge_Above(responseBody) ==
  TruthyBody(responseBody) /\ responseBody.length > MAX_CONTENT_LENGTH_BYTES

\* responseBody && responseBody.length >= MAX_CONTENT_LENGTH_BYTES
TooLarge(responseBody) ==
  TruthyBody(responseBody) /\ responseBody.length >= MAX_CONTENT_LENGTH_BYTES

\* what a decoder did: it threw, or returned a value
DecoderThrew(decoder) ==
  [decoder |-> decoder, attempted |-> TRUE, done |-> TRUE, threw |-> TRUE,
   value |-> UndefinedValue]
DecoderReturned(decoder, value) ==
  [decoder |-> decoder, attempted |-> TRUE, done |-> TRUE, threw |-> FALSE, value |-> value]
DecoderRunning(decoder) ==
  [decoder |-> decoder, attempted |-> TRUE, done |-> FALSE, threw |-> FALSE,
   value |-> UndefinedValue]
NotDecoded ==
  [decoder |-> "", attempted |-> FALSE, done |-> FALSE, threw |-> FALSE,
   value |-> UndefinedValue]

\* JSON.parse(responseBody) and xml2js.parseStringPromise(responseBody, {explicitRoot:
\* false}) are not part of the fetcher; each can throw or return one of these
JSONParseOutcomes ==
  {DecoderThrew("JSON.parse")} \cup
  {DecoderReturned("JSON.parse", v) :
     v \in {DecodedObject, DecodedArray, DecodedNull, DecodedNumber, DecodedString,
            DecodedBoolean}}
ParseStringOutcomes ==
  {DecoderThrew("xml2js")} \cup
  {DecoderReturned("xml2js", v) : v \in {DecodedObject, DecodedString, DecodedNull}}

\* mutant: every decoded value is kept
BodyAfterDecoding_KeepsNonObjects(raw, outcome) ==
  IF outcome.threw THEN raw ELSE outcome.value

\* responseBody after the try block: the decoded value when the decoder returned
\* and typeof says 'object', response.body otherwise
BodyAfterDecoding(raw, outcome) ==
  IF outcome.threw THEN raw
  ELSE IF outcome.value.typeof # "object" THEN raw
  ELSE outcome.value

\* String.prototype.toLocaleLowerCase, character by character
toLocaleLowerCase(name) ==
  [i \in DOMAIN name |->
     IF \E n \in DOMAIN UpperCase : UpperCase[n] = name[i]
       THEN LowerCase[CHOOSE n \in DOMAIN UpperCase : UpperCase[n] = name[i]]
       ELSE name[i]]

\* header names
H_authorization == <<"a","u","t","h","o","r","i","z","a","t","i","o","n">>
H_Authorization == <<"A","u","t","h","o","r","i","z","a","t","i","o","n">>
H_AUTHORIZATION == <<"A","U","T","H","O","R","I","Z","A","T","I","O","N">>
H_content_type == <<"c","o","n","t","e","n","t","-","t","y","p","e">>
H_www_authenticate == <<"w","w","w","-","a","u","t","h","e","n","t","i","c","a","t","e">>

\* mutant: key === 'authorization', without lower-casing the key
StripAuthorization_CaseSensitive(headers) ==
  SelectSeq(headers, LAMBDA header : header[1] # H_authorization)

\* the loop that deletes every key whose lower-case form is 'authorization'
StripAuthorization(headers) ==
  SelectSeq(headers, LAMBDA header : toLocaleLowerCase(header[1]) # H_authorization)

\* contentType.includes('text/xml') for the content types of the model
IncludesTextXml(contentType) == contentType \in {"text/xml", "text/xml; charset=utf-8"}

\* contentType && contentType.includes('text/xml')
IsXml(headers) ==
  HasKey(headers, H_content_type) /\ IncludesTextXml(Get(headers, H_content_type))

\* what a fetch call returned or threw
NoResult ==
  [kind |-> "none", error |-> NoFetchError, status |-> 0, headers |-> <<>>,
   body |-> UndefinedValue]
Rejected(error) ==
  [kind |-> "threw", error |-> error, status |-> 0, headers |-> <<>>,
   body |-> UndefinedValue]
Resolved(status, headers, body) ==
  [kind |-> "returned", error |-> NoFetchError, status |-> status, headers |-> headers,
   body |-> body]

\* the end of fetch: the headers are copied (Object.assign({}, response.headers)),
\* the copy is stripped, and {status, headers, body} is returned; response is the
\* transport's response object as fetch leaves it
Finish(resp, responseBody) ==
  [response |-> resp,
   result |-> Resolved(resp.statusCode, StripAuthorization(resp.headers), responseBody)]

(***************************************************************************)
(* The fetchers, requests and responses of the model.                      *)
(***************************************************************************)
\* credentials as a dictionary of query parameters: one with values, one with an
\* empty value
ParamDicts == {<<<<"key", "k1">>, <<"sig", "s1">>>>, <<<<"key", "k1">>, <<"sig", "">>>>}

AuthDefs ==
  {AuthDef(type, "") :
     type \in {None, WebBasic, QueryParamToken, MultiQueryParamToken, HeaderBearerToken,
               CodaApiHeaderBearerToken, CustomHeaderToken, AWSSignature4, OAuth2}}
  \cup {AuthDef(CustomHeaderToken, "Token")}

Fetchers ==
  {[authDef |-> NoAuthDef, credentials |-> c] :
     c \in {NoCredentials, Credentials(<<>>)}}
  \cup {[authDef |-> a, credentials |-> NoCredentials] : a \in AuthDefs}
  \cup {[authDef |-> a, credentials |-> Credentials(<<>>)] :
          a \in {d \in AuthDefs : d.type # MultiQueryParamToken}}
  \cup {[authDef |-> AuthDef(MultiQueryParamToken, ""), credentials |-> Credentials(d)] :
          d \in ParamDicts}

\* query strings: none, one parameter, the token's name already there, a repeated name
Queries ==
  {<<>>, <<<<"q", "1">>>>, <<<<"q", "1">>, <<"token", "old">>>>,
   <<<<"a", "1">>, <<"b", "2">>, <<"a", "3">>>>}

\* request headers: none, or an Authorization header of the caller's
RequestHeaders == {<<>>, <<<<"Accept", "text/plain">>, <<"Authorization", "mine">>>>}

NoRequest ==
  [method |-> "", url |-> [base |-> "", query |-> <<>>], headers |-> <<>>, body |-> "",
   form |-> ""]
Requests ==
  {[method |-> "GET", url |-> [base |-> "https://example.com/api", query |-> q],
    headers |-> h, body |-> "", form |-> ""] : q \in Queries, h \in RequestHeaders}

\* body lengths around the limit
BodyLengths ==
  {0, 1, MAX_CONTENT_LENGTH_BYTES - 1, MAX_CONTENT_LENGTH_BYTES,
   MAX_CONTENT_LENGTH_BYTES + 1}

\* response headers: a content type or none, authorization headers in several
\* spellings or none, and a header that stays
ContentTypeHeaders ==
  {<<>>, <<<<H_content_type, "application/json">>>>,
   <<<<H_content_type, "text/xml; charset=utf-8">>>>}
AuthorizationHeaders ==
  {<<>>, <<<<H_authorization, "Bearer tok">>>>, <<<<H_Authorization, "Bearer tok">>>>,
   <<<<H_AUTHORIZATION, "Basic x">>, <<H_authorization, "Bearer tok">>>>}
ResponseHeaders ==
  {ct \o auth \o <<<<H_www_authenticate, "Basic">>>> :
     ct \in ContentTypeHeaders, auth \in AuthorizationHeaders}

NoResponse == [statusCode |-> 0, headers |-> <<>>, body |-> UndefinedValue]
Responses ==
  {[statusCode |-> status, headers |-> h, body |-> RawBody(n)] :
     status \in {200, 201}, h \in ResponseHeaders, n \in BodyLengths}

InitFetch ==
  /\ fetcher \in Fetchers
  /\ request = NoRequest
  /\ fpc = "idle"
  /\ transport = <<>>
  /\ response = NoResponse
  /\ decoding = NotDecoded
  /\ fetchResult = NoResult
  /\ SchemaIdle /\ KeyIdle /\ FormulaIdle

\* mutant: a fetcher of type None applies no authentication and asks for no credentials
Fetch_NoneNeedsNoCredentials ==
  /\ fpc = "idle"
  /\ \E req \in Requests :
       LET a == IF fetcher.authDef.defined /\ fetcher.authDef.type = None
                  THEN Applied(req.url, req.headers, req.body, req.form)
                  ELSE applyAuthentication(fetcher, req)
       IN
       /\ request' = req
       /\ IF a.error # NoFetchError
            THEN /\ fpc' = "threw"
                 /\ fetchResult' = Rejected(a.error)
                 /\ UNCHANGED transport
            ELSE /\ fpc' = "awaiting response"
                 /\ transport' = Append(transport, TransportRequest(a, req.method))
                 /\ UNCHANGED fetchResult
  /\ UNCHANGED <<fetcher, response, decoding, schemaVars, keyVars, formulaVars>>

\* fetch(request) up to its first yield: the authentication is applied and the
\* request handed to the transport; an error of _applyAuthentication rejects the call
Fetch ==
  /\ fpc = "idle"
  /\ \E req \in Requests :
       LET a == applyAuthentication(fetcher, req) IN
       /\ request' = req
       /\ IF a.error # NoFetchError
            THEN /\ fpc' = "threw"
                 /\ fetchResult' = Rejected(a.error)
                 /\ UNCHANGED transport
            ELSE /\ fpc' = "awaiting response"
                 /\ transport' = Append(transport, TransportRequest(a, req.method))
                 /\ UNCHANGED fetchResult
  /\ UNCHANGED <<fetcher, response, decoding, schemaVars, keyVars, formulaVars>>

\* the transport resolves its promise with the full response
TransportResolves ==
  /\ fpc = "awaiting response"
  /\ \E resp \in Responses : response' = resp
  /\ fpc' = "responded"
  /\ UNCHANGED <<fetcher, request, transport, decoding, fetchResult, schemaVars, keyVars, formulaVars>>

\* the transport rejects its promise, and fetch with it
TransportRejects ==
  /\ fpc = "awaiting response"
  /\ fpc' = "threw"
  /\ fetchResult' = Rejected(TransportError)
  /\ UNCHANGED <<fetcher, request, transport, response, decoding, schemaVars, keyVars, formulaVars>>

\* fetch from the response on: the size check, then on the JSON path the decoding
\* and the return, on the XML path the call of the parser and the second yield
AfterResponse ==
  /\ fpc = "responded"
  /\ IF TooLarge(response.body)
       THEN /\ fpc' = "threw"
            /\ fetchResult' = Rejected(BodyTooLarge(response.body.length))
            /\ UNCHANGED <<response, decoding>>
       ELSE IF IsXml(response.headers)
         THEN /\ fpc' = "awaiting parser"
              /\ decoding' = DecoderRunning("xml2js")
              /\ UNCHANGED <<response, fetchResult>>
         ELSE \E outcome \in JSONParseOutcomes :
                LET end == Finish(response, BodyAfterDecoding(response.body, outcome)) IN
                /\ decoding' = outcome
                /\ response' = end.response
                /\ fetchResult' = end.result
                /\ fpc' = "returned"
  /\ UNCHANGED <<fetcher, request, transport, schemaVars, keyVars, formulaVars>>

\* fetch from the end of the XML parser on
AfterParseString ==
  /\ fpc = "awaiting parser"
  /\ \E outcome \in ParseStringOutcomes :
       LET end == Finish(response, BodyAfterDecoding(response.body, outcome)) IN
       /\ decoding' = outcome
       /\ response' = end.response
       /\ fetchResult' = end.result
       /\ fpc' = "returned"
  /\ UNCHANGED <<fetcher, request, transport, schemaVars, keyVars, formulaVars>>

NextFetch == Fetch \/ TransportResolves \/ TransportRejects \/ AfterResponse \/ AfterParseString

SpecFetch == InitFetch /\ [][NextFetch]_vars

(***************************************************************************)
(* Properties of fetch (checked under SpecFetch).                          *)
(***************************************************************************)
\* fetch threw the 'Response body is too large' error
ThrewTooLarge ==
  fetchResult.kind = "threw" /\ fetchResult.error.template = BodyTooLarge(0).template

\* the lower-case form of the header name is 'authorization'
IsAuthorization(name) == toLocaleLowerCase(name) = H_authorization

\* C16: once fetch has gone past the size check, it has thrown the too-large error
\* exactly when the raw body's length is at or above 25 * 1024 * 1024; the error is
\* thrown after the transport has responded and before any decoder is called.
C16_TooLargeAtLimit ==
  /\ fpc \in {"awaiting parser", "returned"} \/ (fpc = "threw" /\ response # NoResponse) =>
       (ThrewTooLarge <=> response.body.length >= MAX_CONTENT_LENGTH_BYTES)
  /\ ThrewTooLarge =>
       /\ Len(transport) = 1
       /\ response # NoResponse
       /\ ~decoding.attempted
       /\ fetchResult.error = BodyTooLarge(response.body.length)

\* a body of exactly the limit was refused, and no decoder was called
C16_Witness ==
  /\ fetchResult = Rejected(BodyTooLarge(MAX_CONTENT_LENGTH_BYTES))
  /\ response.body.length = MAX_CONTENT_LENGTH_BYTES
  /\ ~decoding.attempted

\* C17: when fetch returns, no returned header is named 'authorization' in any
\* spelling, every other header of the response is returned with its name and
\* value, nothing else is returned, and the transport's response is as it was.
C17_AuthorizationHeaderStripped ==
  [][fpc' = "returned" /\ fpc # "returned" =>
       /\ \A i \in DOMAIN fetchResult'.headers : ~IsAuthorization(fetchResult'.headers[i][1])
       /\ \A i \in DOMAIN response.headers :
            ~IsAuthorization(response.headers[i][1]) =>
              \E j \in DOMAIN fetchResult'.headers :
                fetchResult'.headers[j] = response.headers[i]
       /\ \A j \in DOMAIN fetchResult'.headers :
            \E i \in DOMAIN response.headers : response.headers[i] = fetchResult'.headers[j]
       /\ response' = response]_vars

\* a response with an AUTHORIZATION and an authorization header was returned without
\* them and with its two other headers
C17_Witness ==
  /\ fpc = "returned"
  /\ HasKey(response.headers, H_AUTHORIZATION) /\ HasKey(response.headers, H_authorization)
  /\ Len(response.headers) = 4
  /\ Len(fetchResult.headers) = 2
  /\ HasKey(fetchResult.headers, H_www_authenticate)

\* C18: a fetcher of type AWSSignature4 or OAuth2 gives no request to the transport,
\* and every fetch call on it has thrown.
C18_UnimplementedTypesFail ==
  fetcher.authDef.defined /\ fetcher.authDef.type \in {AWSSignature4, OAuth2} =>
    /\ transport = <<>>
    /\ fpc # "idle" =>
         /\ fpc = "threw"
         /\ fetchResult.kind = "threw"
         /\ fetchResult.error \in {NotYetImplemented, MissingCredentials(fetcher.authDef.type)}

\* fetch was called on an OAuth2 fetcher that has credentials, and threw
C18_Witness ==
  /\ fetcher.authDef.type = OAuth2
  /\ fetcher.credentials.defined
  /\ fpc = "threw"
  /\ fetchResult = Rejected(NotYetImplemented)
  /\ transport = <<>>

\* C19: once a decoder has thrown or returned, fetch returns; the body is the
\* decoded value when the decoder returned a value whose typeof is 'object', and
\* the raw response body otherwise, with the response's status and its headers
\* (less authorization) either way.
C19_DecodeFailuresReturnRawBody ==
  /\ decoding.done => fpc = "returned" /\ fetchResult.kind = "returned"
  /\ fpc = "returned" =>
       /\ decoding.done
       /\ fetchResult.status = response.statusCode
       /\ fetchResult.headers = StripAuthorization(response.headers)
       /\ fetchResult.body =
            IF ~decoding.threw /\ decoding.value.typeof = "object"
              THEN decoding.value
              ELSE response.body

\* JSON.parse returned a string (a non-object), and fetch returned the raw body
C19_Witness ==
  /\ fpc = "returned"
  /\ decoding = DecoderReturned("JSON.parse", DecodedString)
  /\ fetchResult.body = response.body
  /\ response.body = RawBody(1)

\* C25: the request a QueryParamToken fetcher hands to the transport has a query
\* string whose first parameter is paramName with the credential's value, followed by
\* the parameters the request's URL had under other names, with their values and in
\* their order; headers (but for the user agent fetch adds), body and form are those
\* of the request.
C25_TokenFirstOthersKept ==
  (/\ fetcher.authDef.defined /\ fetcher.authDef.type = QueryParamToken
   /\ fetcher.credentials.defined
   /\ transport # <<>>) =>
     LET sent == transport[1]
         paramName == fetcher.authDef.paramName
     IN /\ sent.url.base = request.url.base
        /\ sent.url.query =
             << <<paramName, fetcher.credentials.paramValue>> >>
             \o SearchParamsDelete(request.url.query, paramName)
        /\ sent.headers = Set(request.headers, "User-Agent", FetcherUserAgent)
        /\ sent.body = request.body /\ sent.form = request.form

\* the text of the missing-credentials message
MissingCredentialsTemplate == MissingCredentials("").template

\* C26: a fetcher with an authentication definition and no credentials gives no
\* request to the transport, and every fetch call on it has thrown the
\* missing-credentials error naming the definition's type, whatever the type; a
\* fetcher without an authentication definition never throws that error and hands
\* every request to the transport.
C26_MissingCredentials ==
  /\ (fetcher.authDef.defined /\ ~fetcher.credentials.defined) =>
       /\ transport = <<>>
       /\ fpc # "idle" =>
            (fpc = "threw" /\ fetchResult = Rejected(MissingCredentials(fetcher.authDef.type)))
  /\ ~fetcher.authDef.defined =>
       /\ fetchResult.error.template # MissingCredentialsTemplate
       /\ fpc # "idle" => Len(transport) = 1

\* fetch was called on a fetcher of type None that has no credentials, and threw
C26_Witness ==
  /\ fetcher.authDef.defined /\ fetcher.authDef.type = None
  /\ ~fetcher.credentials.defined
  /\ fpc = "threw"
  /\ fetchResult.error.template = MissingCredentialsTemplate
  /\ fetchResult.error.detail = None
  /\ transport = <<>>

(***************************************************************************)
(* Formulas (api.js).  makeObjectFormula, makeTranslateObjectFormula and   *)
(* makeEmptyFormula build a formula from a definition; the definitions of  *)
(* the model hold one response template object.  An invocation of a        *)
(* formula's execute function is a chain of promise callbacks, one step    *)
(* each.  The request and response handlers (handler_templates) and the    *)
(* author's execute and onError functions are not part of api.js: they are *)
(* modelled by what they return or throw.                                  *)
(***************************************************************************)
\* values and errors that pass through an invocation
FetchResponse == "response of fetcher.fetch"
ExecuteResult == "result of definition.execute"
UndefinedResult == "undefined"
Substitute == "value returned by onError"
Coerced == "value returned by the response handler"
EmptyString == "''"
RequestTemplateError == "error of the request handler"
FetcherError == "error of fetcher.fetch"
ExecuteError == "error of definition.execute"
ResponseHandlingError == "error of the response handler"
EnsureExistsError == "error of ensureExists"

\* what a call or an invocation came to
Pending == [kind |-> "none", value |-> "", error |-> ""]
Returned(value) == [kind |-> "returned", value |-> value, error |-> ""]
Threw(error) == [kind |-> "threw", value |-> "", error |-> error]

\* the function generateObjectResponseHandler(response) returns, called on a response:
\* it returns the coerced body or raises.  raises: it raises on this input
responseHandler(raises) ==
  IF raises THEN Threw(ResponseHandlingError) ELSE Returned(Coerced)

\* a formula: the function that made it, whether its execute is the one api.js
\* wraps around a response handler, the onError hook read from the template when it
\* was made, and its schema (0: undefined)
Formula(maker, wrapped, onError, schema) ==
  [maker |-> maker, wrapped |-> wrapped, onError |-> onError, schema |-> schema]

\* an invocation of formula f, before its first step has run
Invocation(f) ==
  [formula |-> f, pc |-> "called", fetches |-> 0, executes |-> 0, settled |-> Pending,
   carried |-> "", handlerRuns |-> 0, handlerRaised |-> FALSE, onErrorCalls |-> <<>>,
   result |-> Pending]

\* the schemas of the response template: objects with one property whose key
\* normalization changes
TemplateSchemaLits ==
  {NormObjectLit(<< <<k, PropertyLit(SchemaObject(String), Val(TRUE), Absent(NoKey))>> >>,
                      TRUE, FALSE, Carried(FALSE)) :
          k \in {K_a_b, K_blank}}

InitFormula ==
  \E lit \in TemplateSchemaLits, onError \in BOOLEAN :
    LET d == Declare(<<>>, lit) IN
    /\ heap = d.heap
    /\ root = d.ret
    /\ calls = <<>>
    /\ responseTemplate = [schema |-> d.ret, onError |-> onError]
    /\ formulas = <<>>
    /\ invocations = <<>>
    /\ KeyIdle /\ FetchIdle

\* response.schema = normalizeSchema(response.schema), on the template object
NormalizeTemplate ==
  LET r == normalizeSchema(heap, responseTemplate.schema) IN
  /\ heap' = r.heap
  /\ responseTemplate' = [responseTemplate EXCEPT !.schema = r.ret]

\* no formula was made by this function yet: each of the three functions is called
\* at most once in a behaviour
NotMade(maker) == \A f \in DOMAIN formulas : formulas[f].maker # maker

\* makeObjectFormula(definition): with a response template the schema is normalized
\* in the template and execute is wrapped; without one the formula has the
\* definition's execute and no schema
MakeObjectFormula ==
  /\ NotMade("makeObjectFormula")
  /\ \E withResponse \in BOOLEAN :
       IF withResponse
         THEN /\ NormalizeTemplate
              /\ formulas' = Append(formulas,
                                     Formula("makeObjectFormula", TRUE,
                                             responseTemplate.onError,
                                             responseTemplate'.schema))
         ELSE /\ formulas' = Append(formulas, Formula("makeObjectFormula", FALSE, FALSE, 0))
              /\ UNCHANGED <<heap, responseTemplate>>
  /\ UNCHANGED <<root, calls, invocations, keyVars, fetchVars>>

\* makeTranslateObjectFormula(definition)
MakeTranslateObjectFormula ==
  /\ NotMade("makeTranslateObjectFormula")
  /\ NormalizeTemplate
  /\ formulas' = Append(formulas,
                         Formula("makeTranslateObjectFormula", TRUE,
                                 responseTemplate.onError, responseTemplate'.schema))
  /\ UNCHANGED <<root, calls, invocations, keyVars, fetchVars>>

\* makeEmptyFormula(definition)
MakeEmptyFormula ==
  /\ NotMade("makeEmptyFormula")
  /\ formulas' = Append(formulas, Formula("makeEmptyFormula", FALSE, FALSE, 0))
  /\ UNCHANGED <<schemaVars, responseTemplate, invocations, keyVars, fetchVars>>

Fetching(maker) == maker \in {"makeTranslateObjectFormula", "makeEmptyFormula"}

\* execute(params, context) up to the first promise: a translate or empty formula
\* renders the request (the request handler raises when a required parameter cannot
\* be resolved) and calls fetcher.fetch with it; an object formula calls the
\* definition's execute
Execute ==
  /\ Len(invocations) < MaxInvocations
  /\ \E f \in DOMAIN formulas, resolvable \in BOOLEAN :
       LET inv == Invocation(f) IN
       IF Fetching(formulas[f].maker)
         THEN invocations' = Append(invocations,
                IF resolvable
                  THEN [inv EXCEPT !.pc = "fetching", !.fetches = 1]
                  ELSE [inv EXCEPT !.pc = "done", !.result = Threw(RequestTemplateError)])
         ELSE /\ resolvable
              /\ invocations' = Append(invocations,
                                       [inv EXCEPT !.pc = "executing", !.executes = 1])
  /\ UNCHANGED <<schemaVars, responseTemplate, formulas, keyVars, fetchVars>>

\* mutant: the invocations of one formula share one promise, fulfilling it settles
\* all of those that wait
Resolves_SharedPromise ==
  /\ \E i \in DOMAIN invocations :
       /\ invocations[i].pc \in {"fetching", "executing"}
       /\ \E value \in IF invocations[i].pc = "fetching"
                         THEN {FetchResponse} ELSE {ExecuteResult, UndefinedResult} :
            invocations' =
              [j \in DOMAIN invocations |->
                 IF /\ invocations[j].formula = invocations[i].formula
                    /\ invocations[j].pc = invocations[i].pc
                   THEN [invocations[j] EXCEPT !.pc = "settled", !.settled = Returned(value)]
                   ELSE invocations[j]]
  /\ UNCHANGED <<schemaVars, responseTemplate, formulas, keyVars, fetchVars>>

\* the promise of fetcher.fetch or of the definition's execute is fulfilled
Resolves ==
  /\ \E i \in DOMAIN invocations :
       \/ /\ invocations[i].pc = "fetching"
          /\ invocations' = [invocations EXCEPT ![i].pc = "settled",
                                                ![i].settled = Returned(FetchResponse)]
       \/ /\ invocations[i].pc = "executing"
          /\ \E value \in {ExecuteResult, UndefinedResult} :
               invocations' = [invocations EXCEPT ![i].pc = "settled",
                                                  ![i].settled = Returned(value)]
  /\ UNCHANGED <<schemaVars, responseTemplate, formulas, keyVars, fetchVars>>

\* the promise of fetcher.fetch or of the definition's execute is rejected
Rejects ==
  /\ \E i \in DOMAIN invocations :
       /\ invocations[i].pc \in {"fetching", "executing"}
       /\ invocations' =
            [invocations EXCEPT
               ![i].pc = "settled",
               ![i].settled = Threw(IF invocations[i].pc = "fetching"
                                      THEN FetcherError ELSE ExecuteError)]
  /\ UNCHANGED <<schemaVars, responseTemplate, formulas, keyVars, fetchVars>>

\* .catch(err => { if (onError) return onError(err); throw err; }) of a translate
\* formula: a fulfilled fetch passes through
CatchCallback ==
  /\ \E i \in DOMAIN invocations :
       LET inv == invocations[i]
           f == formulas[inv.formula]
       IN /\ inv.pc = "settled"
          /\ f.maker = "makeTranslateObjectFormula"
          /\ invocations' =
               [invocations EXCEPT ![i] =
                  IF inv.settled.kind = "returned"
                    THEN [inv EXCEPT !.pc = "caught", !.carried = inv.settled.value]
                  ELSE IF f.onError
                    THEN [inv EXCEPT !.pc = "caught", !.carried = Substitute,
                                     !.onErrorCalls = Append(@, inv.settled.error)]
                    ELSE [inv EXCEPT !.pc = "done", !.result = Threw(inv.settled.error)]]
  /\ UNCHANGED <<schemaVars, responseTemplate, formulas, keyVars, fetchVars>>

\* the invocation after the response handler was called: what the handler returns
\* or throws is what the invocation returns or throws
Handled(inv, raises) ==
  [inv EXCEPT !.pc = "done", !.handlerRuns = @ + 1, !.handlerRaised = raises,
              !.result = responseHandler(raises)]

\* mutant: the response handler is not chained behind the fetch, it also runs while
\* the fetch is pending
ThenResponseHandler_Unchained ==
  /\ \E i \in DOMAIN invocations, raises \in BOOLEAN :
       LET inv == invocations[i]
           f == formulas[inv.formula]
       IN /\ inv.pc \in {"fetching", "caught"}
          /\ f.maker = "makeTranslateObjectFormula"
          /\ invocations' = [invocations EXCEPT ![i] = Handled(inv, raises)]
  /\ UNCHANGED <<schemaVars, responseTemplate, formulas, keyVars, fetchVars>>

\* .then(responseHandler) of a translate formula
ThenResponseHandler ==
  /\ \E i \in DOMAIN invocations, raises \in BOOLEAN :
       LET inv == invocations[i]
           f == formulas[inv.formula]
       IN /\ inv.pc = "caught"
          /\ invocations' = [invocations EXCEPT ![i] = Handled(inv, raises)]
  /\ UNCHANGED <<schemaVars, responseTemplate, formulas, keyVars, fetchVars>>

\* .then(() => '') of an empty formula: a rejected fetch passes through
ThenEmpty ==
  /\ \E i \in DOMAIN invocations :
       LET inv == invocations[i] IN
       /\ inv.pc = "settled"
       /\ formulas[inv.formula].maker = "makeEmptyFormula"
       /\ invocations' =
            [invocations EXCEPT
               ![i].pc = "done",
               ![i].result = IF inv.settled.kind = "returned"
                               THEN Returned(EmptyString) ELSE inv.settled]
  /\ UNCHANGED <<schemaVars, responseTemplate, formulas, keyVars, fetchVars>>

\* an object formula after the definition's execute has settled.  The wrapped exec
\* gives a rejection to onError or rethrows it, then calls the response handler on
\* {body: ensureExists(result), status: 200, headers: {}}; an execute that is not
\* wrapped settles the invocation as it settled itself
ExecResumes ==
  /\ \E i \in DOMAIN invocations, raises \in BOOLEAN :
       LET inv == invocations[i]
           f == formulas[inv.formula]
           recovered == inv.settled.kind = "threw" /\ f.onError
           result == IF recovered THEN Substitute ELSE inv.settled.value
           afterCatch == IF recovered
                           THEN [inv EXCEPT !.onErrorCalls = Append(@, inv.settled.error)]
                           ELSE inv
       IN /\ inv.pc = "settled"
          /\ f.maker = "makeObjectFormula"
          /\ invocations' =
               [invocations EXCEPT ![i] =
                  IF ~f.wrapped THEN [inv EXCEPT !.pc = "done", !.result = inv.settled]
                  ELSE IF inv.settled.kind = "threw" /\ ~f.onError
                    THEN [inv EXCEPT !.pc = "done", !.result = Threw(inv.settled.error)]
                  ELSE IF result = UndefinedResult
                    THEN [afterCatch EXCEPT !.pc = "done", !.result = Threw(EnsureExistsError)]
                  ELSE Handled(afterCatch, raises)]
  /\ UNCHANGED <<schemaVars, responseTemplate, formulas, keyVars, fetchVars>>

NextFormula ==
  \/ MakeObjectFormula \/ MakeTranslateObjectFormula \/ MakeEmptyFormula
  \/ Execute \/ Resolves \/ Rejects
  \/ CatchCallback \/ ThenResponseHandler \/ ThenEmpty \/ ExecResumes

SpecFormula == InitFormula /\ [][NextFormula]_vars

(***************************************************************************)
(* Properties of formulas (checked under SpecFormula).                     *)
(***************************************************************************)
\* C20: when the response handler of an invocation has raised, the error was passed
\* to onError and the invocation returned onError's value if the template has an
\* onError hook, and the invocation threw the error if it has none.
C20_HandlerExceptionGoesToOnError ==
  \A i \in DOMAIN invocations :
    LET inv == invocations[i] IN
    inv.handlerRaised =>
      IF formulas[inv.formula].onError
        THEN /\ inv.result = Returned(Substitute)
             /\ \E n \in DOMAIN inv.onErrorCalls : inv.onErrorCalls[n] = ResponseHandlingError
        ELSE inv.result = Threw(ResponseHandlingError)

\* the invocations of formulas made by one of the three functions
InvocationsOf(maker) ==
  {i \in DOMAIN invocations : formulas[invocations[i].formula].maker = maker}

\* C21: in an invocation of a translate formula at most one fetcher.fetch call is
\* made, and none when rendering the request raised; the response handler runs at
\* most once, only behind a fetch that has settled, on the response of a fulfilled
\* fetch or on the value onError returned for a rejected one; an invocation that is
\* over ran the handler exactly once if its fetch was fulfilled or onError replaced
\* the rejection, and not at all otherwise.
C21_TranslateStepsOrdered ==
  \A i \in InvocationsOf("makeTranslateObjectFormula") :
    LET inv == invocations[i]
        f == formulas[inv.formula]
        fulfilled == inv.settled.kind = "returned"
        replaced == inv.settled.kind = "threw" /\ f.onError
    IN /\ inv.fetches <= 1 /\ inv.handlerRuns <= 1 /\ inv.executes = 0
       /\ inv.fetches = 0 =>
            /\ inv.settled = Pending /\ inv.handlerRuns = 0
            /\ inv.result = Threw(RequestTemplateError)
       /\ inv.handlerRuns = 1 =>
            /\ inv.fetches = 1
            /\ fulfilled \/ replaced
            /\ fulfilled => inv.carried = FetchResponse /\ inv.onErrorCalls = <<>>
            /\ replaced => inv.carried = Substitute /\ inv.onErrorCalls = <<FetcherError>>
       /\ inv.pc = "done" => (inv.handlerRuns = 1 <=> (fulfilled \/ replaced))

\* an invocation is over whose fetch was rejected, whose onError hook replaced the
\* rejection, and whose response handler then ran once
C21_Witness ==
  \E i \in InvocationsOf("makeTranslateObjectFormula") :
    /\ invocations[i].pc = "done"
    /\ invocations[i].settled = Threw(FetcherError)
    /\ invocations[i].onErrorCalls = <<FetcherError>>
    /\ invocations[i].handlerRuns = 1

\* the outcome of an invocation of formula f that runs alone: rendered says whether
\* the request handler rendered the request, settled is what the fetch or the
\* definition's execute came to, raises whether the response handler raises on what
\* it is given
OutcomeAlone(f, rendered, settled, raises) ==
  LET rejected == settled.kind = "threw" IN
  IF f.maker = "makeTranslateObjectFormula" THEN
    IF ~rendered THEN Threw(RequestTemplateError)
    ELSE IF rejected /\ ~f.onError THEN settled
    ELSE responseHandler(raises)
  ELSE IF f.maker = "makeEmptyFormula" THEN
    IF ~rendered THEN Threw(RequestTemplateError)
    ELSE IF rejected THEN settled
    ELSE Returned(EmptyString)
  ELSE
    IF ~f.wrapped THEN settled
    ELSE IF rejected /\ ~f.onError THEN settled
    ELSE IF ~rejected /\ settled.value = UndefinedResult THEN Threw(EnsureExistsError)
    ELSE responseHandler(raises)

\* every invocation that is over has the outcome of running alone on its own inputs
OutcomesAsAlone ==
  \A i \in DOMAIN invocations :
    LET inv == invocations[i]
        f == formulas[inv.formula]
    IN inv.pc = "done" =>
         inv.result = OutcomeAlone(f, inv.fetches + inv.executes = 1, inv.settled,
                                   inv.handlerRaised)

\* a step of an invocation starts one invocation or changes one, leaves every other
\* invocation as it is and writes neither the formulas, nor the response template,
\* nor a schema
InvocationStepsAreLocal ==
  invocations' # invocations =>
    /\ UNCHANGED <<heap, root, responseTemplate, formulas>>
    /\ \/ /\ Len(invocations') = Len(invocations) + 1
          /\ SubSeq(invocations', 1, Len(invocations)) = invocations
       \/ /\ Len(invocations') = Len(invocations)
          /\ Cardinality({i \in DOMAIN invocations : invocations'[i] # invocations[i]}) = 1

\* C22: in every interleaving of the invocations of formulas made by
\* makeTranslateObjectFormula, makeObjectFormula and makeEmptyFormula, a step of one
\* invocation writes nothing another invocation reads (no other invocation, formula,
\* template or schema), and each invocation's outcome is the outcome it has when it
\* runs alone with the same parameters and the same fetch response.
C22_InvocationsIndependent == []OutcomesAsAlone /\ [][InvocationStepsAreLocal]_vars

\* two invocations of the translate formula are in flight at once: the first had its
\* fetch fulfilled and waits for the response handler, the second had its fetch
\* rejected after that
C22_Witness ==
  /\ Len(invocations) = 2
  /\ invocations[1].formula = invocations[2].formula
  /\ formulas[invocations[1].formula].maker = "makeTranslateObjectFormula"
  /\ invocations[1].pc = "caught" /\ invocations[1].settled = Returned(FetchResponse)
  /\ invocations[2].pc = "settled" /\ invocations[2].settled = Threw(FetcherError)

\* the schema the response template was declared with, and its normalized form
DeclaredTemplateSchema ==
  CHOOSE lit \in TemplateSchemaLits : Keys(lit.properties) = Keys(heap[root].properties)
NormalizedOnce ==
  LET d == Declare(<<>>, DeclaredTemplateSchema)
      r == normalizeSchema(d.heap, d.ret)
  IN Value(r.heap, r.ret)

\* the formulas made from a definition with the response template
Registered == {f \in DOMAIN formulas : formulas[f].schema # 0}

\* C30: once a formula has been made from a definition with the response template,
\* the template's schema is normalizeSchema of the schema it was declared with, field
\* for field, however many formulas were made with the template, and the schema of
\* each of these formulas equals it.
C30_RegistrationsNormalizeOnce ==
  Registered # {} =>
    /\ Value(heap, responseTemplate.schema) = NormalizedOnce
    /\ \A f \in Registered : Value(heap, formulas[f].schema) = NormalizedOnce

(***************************************************************************)
(* Reference schemas derived from object schemas                           *)
(* (makeReferenceSchemaFromObjectSchema).  The result of a call is the     *)
(* heap after it, the address returned (0 when it throws) and the error    *)
(* thrown.                                                                 *)
(***************************************************************************)
IdentityNameTemplate ==
  "Source schema must have an identity field, or you must provide an identity name for the reference."
\* the message of an ensureExists call that is given none
DefaultEnsureTemplate == "<message of ensureExists>"

EnsureError(template) ==
  [name |-> "Error", template |-> template, codaType |-> "", field |-> <<>>, at |-> 0]

\* {[validId]: properties[validId]} and, if (primary && primary !== id),
\* referenceProperties[primary] = properties[primary].  A key the source does not
\* have would be held with the value undefined; it is left out here, reading
\* .required of it is the same TypeError in checkSchemaPropertyIsRequired
ReferenceProperties(properties, id, primary) ==
  (IF HasKey(properties, id) THEN << <<id, Get(properties, id)>> >> ELSE <<>>)
  \o
  (IF TruthyKey(primary) /\ primary.v # id /\ HasKey(properties, primary.v)
     THEN << <<primary.v, Get(properties, primary.v)>> >> ELSE <<>>)

\* mutant: all properties of the source are copied
ReferenceSchemaDef_AllProperties(source, identityName) ==
  [SchemaObject(source.type) EXCEPT
     !.codaType = Val(Reference),
     !.id = Read(source.id),
     !.identity = IF source.identity.k = "value" THEN source.identity
                  ELSE Val([name |-> identityName.v, packId |-> Absent(0)]),
     !.primary = Read(source.primary),
     !.properties = source.properties]

\* the object literal given to makeObjectSchema: {codaType: ValueHintType.Reference,
\* type, id, identity: identity || {name: ensureExists(identityName)}, primary,
\* properties: referenceProperties}
ReferenceSchemaDef(source, identityName) ==
  [SchemaObject(source.type) EXCEPT
     !.codaType = Val(Reference),
     !.id = Read(source.id),
     !.identity = IF source.identity.k = "value" THEN source.identity
                  ELSE Val([name |-> identityName.v, packId |-> Absent(0)]),
     !.primary = Read(source.primary),
     !.properties = ReferenceProperties(source.properties, source.id.v, source.primary)]

makeReferenceSchemaFromObjectSchema(h, schema, identityName) ==
  LET source == h[schema]
      named == IF source.identity.k = "value" THEN source.identity ELSE Read(identityName)
      err == FirstError(<< ensureExists(named, EnsureError(IdentityNameTemplate)),
                           ensureExists(source.id, EnsureError(DefaultEnsureTemplate)) >>)
      withDef == Append(h, ReferenceSchemaDef(source, identityName))
  IN IF err # NoError
       THEN [heap |-> h, ret |-> 0, error |-> err]
       ELSE makeObjectSchema(withDef, Len(withDef))

\* the object schemas a reference is derived from: the top-level schemas of
\* validation without nested schemas
SourceHeaders ==
  TopHeaders
  \cup {Header(Absent(NoStr), Val(K_rowId), identity, primary) :
          identity \in IdentityChoices, primary \in {Val(K_title), Val(K_rowId)}}

\* with or without a third property that neither id nor primary names
SourceLits ==
  {ObjectLit(type, hdr, r1, r2, children) :
     type \in {Object, NoType}, hdr \in SourceHeaders, r1 \in RequiredFlags,
     r2 \in {Absent(FALSE), Val(TRUE)},
     children \in {<<>>, <<ScalarLit(Boolean, Absent(FALSE))>>}}

\* the identityName argument: omitted, the empty string, a name
IdentityNames == {Absent(NoStr), Val(""), Val("Ref")}

RefCall(arg, identityName, ret, error) ==
  [op |-> "makeReferenceSchemaFromObjectSchema", arg |-> arg,
   identityName |-> identityName, ret |-> ret, error |-> error]

InitReference ==
  \E lit \in SourceLits :
    LET d == Declare(<<>>, lit) IN
    /\ heap = d.heap
    /\ root = d.ret
    /\ calls = <<>>
    /\ KeyIdle /\ FetchIdle /\ FormulaIdle

MakeReferenceSchemaFromObjectSchema ==
  /\ Len(calls) < MaxCalls
  /\ \E arg \in Args, identityName \in IdentityNames :
       /\ heap[arg].type \in {Object, NoType}
       /\ LET r == makeReferenceSchemaFromObjectSchema(heap, arg, identityName) IN
          /\ heap' = r.heap
          /\ calls' = Append(calls, RefCall(arg, identityName, r.ret, r.error))
  /\ UNCHANGED <<root, keyVars, fetchVars, formulaVars>>

NextReference == MakeReferenceSchemaFromObjectSchema

SpecReference == InitReference /\ [][NextReference]_vars

(***************************************************************************)
(* Properties of derived reference schemas (checked under SpecReference).  *)
(***************************************************************************)
\* the entries of the source's properties under the keys id and primary
NamedProperties(source) ==
  {source.properties[n] : n \in {m \in DOMAIN source.properties :
                                   \/ source.properties[m][1] = source.id.v
                                   \/ source.properties[m][1] = source.primary.v}}

\* C23: a makeReferenceSchemaFromObjectSchema call that returns gives a schema with
\* codaType Reference, the id and the primary of the source, the identity of the
\* source if it has one and {name: identityName} otherwise, and as properties exactly
\* the source's properties named by id and primary; the call raises when the source
\* has no identity and no identityName is given, when the source has no id, when it
\* has no primary, and when the id or the primary property is not marked required.
C23_ReferenceFromObjectSchema ==
  \A i \in DOMAIN calls :
    LET c == calls[i]
        source == heap[c.arg]
        derived == heap[c.ret]
    IN /\ c.ret # 0 =>
            /\ derived.codaType = Val(Reference)
            /\ derived.type = Object
            /\ derived.id = source.id /\ derived.primary = source.primary
            /\ derived.identity =
                 IF source.identity.k = "value" THEN source.identity
                 ELSE Val([name |-> c.identityName.v, packId |-> Absent(0)])
            /\ Range(derived.properties) = NamedProperties(source)
            /\ Len(derived.properties) = Cardinality(NamedProperties(source))
       /\ (/\ IsNullish(source.identity) /\ IsNullish(c.identityName)) => c.ret = 0
       /\ IsNullish(source.id) => c.ret = 0
       /\ IsNullish(source.primary) => c.ret = 0
       /\ ~MarkedRequired(heap, source, source.id) => c.ret = 0
       /\ ~MarkedRequired(heap, source, source.primary) => c.ret = 0

\* a reference schema with two properties was derived, by name, from a schema of
\* three properties without codaType and identity
C23_Witness ==
  \E i \in DOMAIN calls :
    /\ calls[i].ret # 0
    /\ heap[calls[i].arg].codaType = Absent(NoStr)
    /\ heap[calls[i].arg].identity = Absent(NoIdentity)
    /\ calls[i].identityName = Val("Ref")
    /\ Len(heap[calls[i].arg].properties) = 3
    /\ Len(heap[calls[i].ret].properties) = 2

====
